---------------------------- MODULE Spec2Model ----------------------------
(***************************************************************************)
(* A model of the advent2021 puzzle solvers: the command-line dispatcher   *)
(* (main.rs) and the solvers of days 2 to 7, 14, 15, 18, 22 and 23.  The   *)
(* modules share no state, so each one has its own variables and its own   *)
(* specification (SpecMain, SpecDay2, ...); a specification keeps the      *)
(* variables of the other modules at their idle values.                    *)
(***************************************************************************)
EXTENDS Integers, Sequences, FiniteSets, TLC

VARIABLES
    \* main.rs
    args,        \* env::args(): the program name followed by the tokens
    pos,         \* index in args of the token the for loop is at
    ran,         \* the day blocks that ran to completion, in order
    stdout,      \* the printed lines, each abstracted to the block that printed it
    pcMain,      \* "start", "loop", "exit" (normal end) or "panic"
    missing,     \* the days whose input file is absent (the environment)
    \* day2
    commands,    \* the input lines, each the sequence of its whitespace-separated fields
    idxPos,      \* calc_position: index of the next command
    position,    \* calc_position: the (x, y) tuple
    retPos,      \* calc_position: the value returned, None before
    pcPos,       \* calc_position: "run", "done" or "panic"
    idxAim,      \* calc_aim: index of the next command
    heading,     \* calc_aim: the Heading struct
    retAim,      \* calc_aim: the value returned, None before
    pcAim,       \* calc_aim: "run", "done" or "panic"
    \* day22
    steps,       \* the parsed Vec<Step>
    count50,     \* what cubes_on_50(&steps) returned, None before the call
    countAll,    \* what all_cubes_on(&steps) returned, None before the call
    \* day6
    fish0,       \* the initial timers (the argument `fish`)
    days6,       \* the argument `days`
    school,      \* calc_growth: its clone of fish, updated day by day
    day6,        \* calc_growth: the days simulated so far
    retCalc,     \* what calc_growth returned, None before
    retModel,    \* what model_growth returned, None before
    \* day14
    template,    \* the polymer template, a sequence of elements
    rules,       \* pair_insertion: the element each pair inserts
    nsteps,      \* the argument `steps`
    polymer,     \* common_polymers: the Vec<char>
    stepsDone,   \* common_polymers: the passes of its loop made
    pair_count,  \* polymers_as_pairs: the count of each pair
    pairsDone,   \* polymers_as_pairs: the passes of its loop made
    retCommon,   \* what common_polymers returned, None before
    retPairs,    \* what polymers_as_pairs returned, None before
    \* day15
    grid,        \* the risk of each cell, grid[row][col]
    distances,   \* dijkstra: the lowest total risk known to each cell
    queue,       \* dijkstra: the BinaryHeap of Risk { cost, position }
    pc15,        \* dijkstra: "loop", "break" (target popped) or "done"
    ret15,       \* what dijkstra returned, None before
    \* day18
    lines18,     \* the input lines, each a sequence of characters
    added18,     \* find_largest_combo_magnitude: the additions made so far
    number18,    \* add: Some(the number being reduced), None outside of add
    largest18,   \* find_largest_combo_magnitude: largest
    pc18,        \* "next", "reduce", "added", "done" or "panic"
    ret18,       \* what find_largest_combo_magnitude returned, None before
    \* day23
    start23,     \* the burrow given to lowest_energy_solution
    stack23,     \* the calls of next_move in progress, the innermost last
    completed_cost,\* the HashSet of the energies of the solutions found
    pc23,        \* "run", "done" or "panic"
    ret23,       \* what lowest_energy_solution returned, None before
    \* day4
    boards4,     \* the numbers of the boards given, each a sequence of rows
    draws4,      \* the draws, in the order they are called
    playing,     \* last_winner_score: its Vec<Board> `boards`
    drawn,       \* last_winner_score: the draws that are over
    pc4,         \* "loop" or "done"
    ret4,        \* what last_winner_score returned, None before
    \* day5
    lines5,      \* the line segments given
    grid5,       \* count_straight_overlaps: its HashMap `grid`, a function of the points entered
    done5,       \* the lines of the running loop that are over
    pc5,         \* "horizontal", "vertical" or "done"
    ret5,        \* what count_straight_overlaps returned, None before
    \* day3
    diagnostic,  \* the lines given
    rating,      \* life_support: its Vec `oxygen`, then its Vec `co2`
    place3,      \* life_support: `place` of the running loop
    oxygen3,     \* life_support: the parsed oxygen value, None before
    pc3,         \* "oxygen", "co2", "done" or "panic"
    ret3,        \* what life_support returned, None before
    \* day7
    subs7,       \* the crab positions given
    called7,     \* the function called: "none", "linear_gas" or "exponential_gas"
    pc7,         \* "start", "done" or "panic"
    ret7         \* what the function returned, None before

varsMain == <<args, pos, ran, stdout, pcMain, missing>>
varsDay2 == <<commands, idxPos, position, retPos, pcPos, idxAim, heading, retAim, pcAim>>
varsDay22 == <<steps, count50, countAll>>
varsDay6 == <<fish0, days6, school, day6, retCalc, retModel>>
varsDay14 ==
    <<template, rules, nsteps, polymer, stepsDone, pair_count, pairsDone,
      retCommon, retPairs>>
varsDay15 == <<grid, distances, queue, pc15, ret15>>
varsDay18 == <<lines18, added18, number18, largest18, pc18, ret18>>
varsDay23 == <<start23, stack23, completed_cost, pc23, ret23>>
varsDay4 == <<boards4, draws4, playing, drawn, pc4, ret4>>
varsDay5 == <<lines5, grid5, done5, pc5, ret5>>
varsDay3 == <<diagnostic, rating, place3, oxygen3, pc3, ret3>>
varsDay7 == <<subs7, called7, pc7, ret7>>
vars == <<varsMain, varsDay2, varsDay22, varsDay6, varsDay14, varsDay15, varsDay18, varsDay23, varsDay4, varsDay5, varsDay3, varsDay7>>

\* The variables each module leaves alone
notMain == <<varsDay2, varsDay22, varsDay6, varsDay14, varsDay15, varsDay18, varsDay23, varsDay4, varsDay5, varsDay3, varsDay7>>
notDay2 == <<varsMain, varsDay22, varsDay6, varsDay14, varsDay15, varsDay18, varsDay23, varsDay4, varsDay5, varsDay3, varsDay7>>
notDay22 == <<varsMain, varsDay2, varsDay6, varsDay14, varsDay15, varsDay18, varsDay23, varsDay4, varsDay5, varsDay3, varsDay7>>
notDay6 == <<varsMain, varsDay2, varsDay22, varsDay14, varsDay15, varsDay18, varsDay23, varsDay4, varsDay5, varsDay3, varsDay7>>
notDay14 == <<varsMain, varsDay2, varsDay22, varsDay6, varsDay15, varsDay18, varsDay23, varsDay4, varsDay5, varsDay3, varsDay7>>
notDay15 == <<varsMain, varsDay2, varsDay22, varsDay6, varsDay14, varsDay18, varsDay23, varsDay4, varsDay5, varsDay3, varsDay7>>
notDay18 == <<varsMain, varsDay2, varsDay22, varsDay6, varsDay14, varsDay15, varsDay23, varsDay4, varsDay5, varsDay3, varsDay7>>
notDay23 == <<varsMain, varsDay2, varsDay22, varsDay6, varsDay14, varsDay15, varsDay18, varsDay4, varsDay5, varsDay3, varsDay7>>
notDay4 == <<varsMain, varsDay2, varsDay22, varsDay6, varsDay14, varsDay15, varsDay18, varsDay23, varsDay5, varsDay3, varsDay7>>
notDay5 == <<varsMain, varsDay2, varsDay22, varsDay6, varsDay14, varsDay15, varsDay18, varsDay23, varsDay4, varsDay3, varsDay7>>
notDay3 == <<varsMain, varsDay2, varsDay22, varsDay6, varsDay14, varsDay15, varsDay18, varsDay23, varsDay4, varsDay5, varsDay7>>
notDay7 == <<varsMain, varsDay2, varsDay22, varsDay6, varsDay14, varsDay15, varsDay18, varsDay23, varsDay4, varsDay5, varsDay3>>

\* Rust's Option: None, and Some(v) with v = opt[1]
None == <<>>

Some(v) == <<v>>

----------------------------------------------------------------------------
(* Generic helpers *)

Range(s) == {s[i] : i \in DOMAIN s}

SeqsUpTo(S, n) == UNION {[1..k -> S] : k \in 0..n}

Abs(n) == IF n < 0 THEN -n ELSE n

Min2(a, b) == IF a <= b THEN a ELSE b

Max2(a, b) == IF a >= b THEN a ELSE b

SetMin(S) == CHOOSE m \in S : \A n \in S : m <= n

SetMax(S) == CHOOSE m \in S : \A n \in S : m >= n

----------------------------------------------------------------------------
(* Idle values: what a specification gives the variables of other modules *)

IdleMain ==
    /\ args = <<>> /\ pos = 0 /\ ran = <<>> /\ stdout = <<>>
    /\ pcMain = "idle" /\ missing = {}

IdleDay2 ==
    /\ commands = <<>>
    /\ idxPos = 0 /\ position = <<0, 0>> /\ retPos = None /\ pcPos = "idle"
    /\ idxAim = 0 /\ heading = [aim |-> 0, position |-> 0, depth |-> 0]
    /\ retAim = None /\ pcAim = "idle"

IdleDay22 == steps = <<>> /\ count50 = None /\ countAll = None

IdleDay6 ==
    /\ fish0 = <<>> /\ days6 = 0 /\ school = <<>> /\ day6 = 0
    /\ retCalc = None /\ retModel = None

IdleDay14 ==
    /\ template = <<>> /\ rules = <<>> /\ nsteps = 0
    /\ polymer = <<>> /\ stepsDone = 0 /\ pair_count = <<>> /\ pairsDone = 0
    /\ retCommon = None /\ retPairs = None

IdleDay15 ==
    grid = <<>> /\ distances = <<>> /\ queue = {} /\ pc15 = "idle" /\ ret15 = None

IdleDay18 ==
    lines18 = <<>> /\ added18 = 0 /\ number18 = None /\ largest18 = 0 /\ pc18 = "idle" /\ ret18 = None

IdleDay23 ==
    start23 = <<>> /\ stack23 = <<>> /\ completed_cost = {} /\ pc23 = "idle" /\ ret23 = None

IdleDay4 ==
    boards4 = <<>> /\ draws4 = <<>> /\ playing = <<>> /\ drawn = 0 /\ pc4 = "idle" /\ ret4 = None

IdleDay5 ==
    lines5 = <<>> /\ grid5 = <<>> /\ done5 = 0 /\ pc5 = "idle" /\ ret5 = None

IdleDay3 ==
    diagnostic = <<>> /\ rating = <<>> /\ place3 = 0 /\ oxygen3 = None /\ pc3 = "idle" /\ ret3 = None

IdleDay7 ==
    subs7 = <<>> /\ called7 = "none" /\ pc7 = "idle" /\ ret7 = None

----------------------------------------------------------------------------
(* main.rs: the dispatcher *)

MaxArgs == 3

\* The string literals of the `if day == "dayN"` blocks, in source order.
Blocks ==
    << "day1", "day2", "day3", "day4", "day5", "day6", "day7", "day8", "day9",
       "day10", "day11", "day12", "day13", "day14", "day15", "day16", "day17",
       "day18", "day19", "day20", "day21", "day22", "day23", "day24", "day25" >>

\* The blocks that start by reading an input file with .expect(..): all but
\* day21 and day23, whose inputs are compiled in.
ReadsFile(b) == b \notin {"day21", "day23"}

\* Tokens a user may pass: the day names and some that match no block.
Unrecognised == {"day0", "day26", "Day1"}

\* and the day names tried: the first and the last block, a block that reads
\* no file, the block that may print nothing, and one in the middle.
Tokens == {"day1", "day2", "day21", "day24", "day25"} \cup Unrecognised

InitMain ==
    /\ args \in {<<"advent">> \o t : t \in SeqsUpTo(Tokens, MaxArgs)}
    /\ pos = 2
    /\ ran = <<>>
    /\ stdout = <<>>
    /\ pcMain = "start"
    /\ missing \in SUBSET {"day1", "day24"}
    /\ IdleDay2 /\ IdleDay22 /\ IdleDay6 /\ IdleDay14 /\ IdleDay15 /\ IdleDay18 /\ IdleDay23 /\ IdleDay4 /\ IdleDay5 /\ IdleDay3 /\ IdleDay7

\* if args.len() == 1 { usage; process::exit(0) }
Usage ==
    /\ pcMain = "start"
    /\ Len(args) = 1
    /\ stdout' = stdout \o <<"usage", "usage", "usage">>
    /\ pcMain' = "exit"
    /\ UNCHANGED <<args, pos, ran, missing>>
    /\ UNCHANGED notMain

EnterLoop ==
    /\ pcMain = "start"
    /\ Len(args) # 1
    /\ pcMain' = "loop"
    /\ UNCHANGED <<args, pos, ran, stdout, missing>>
    /\ UNCHANGED notMain

\* A dispatcher that compares with starts_with instead of ==.
MatchingPrefix(day) ==
    SelectSeq(Blocks, LAMBDA b : day = b \/ (day = "day26" /\ b = "day2"))

\* The blocks whose condition `day == literal` holds for the token.
Matching(day) == SelectSeq(Blocks, LAMBDA b : day = b)

\* One iteration of `for day in days`: every block whose literal equals the
\* token runs; a block whose input file is missing panics before it prints.
\* The day24 block prints only for the numbers its input validates.
ProcessArg ==
    /\ pcMain = "loop"
    /\ pos <= Len(args)
    /\ LET m == Matching(args[pos])
           fails == \E i \in DOMAIN m : ReadsFile(m[i]) /\ m[i] \in missing
       IN IF fails
          THEN /\ pcMain' = "panic"
               /\ UNCHANGED <<pos, ran, stdout>>
          ELSE /\ ran' = ran \o m
               /\ \E printed \in (IF m = <<"day24">> THEN {<<>>, m} ELSE {m}) :
                      stdout' = stdout \o printed
               /\ pos' = pos + 1
               /\ UNCHANGED pcMain
    /\ UNCHANGED <<args, missing>>
    /\ UNCHANGED notMain

Return ==
    /\ pcMain = "loop"
    /\ pos > Len(args)
    /\ pcMain' = "exit"
    /\ UNCHANGED <<args, pos, ran, stdout, missing>>
    /\ UNCHANGED notMain

NextMain ==
    \/ Usage
    \/ EnterLoop
    \/ ProcessArg
    \/ Return

SpecMain == InitMain /\ [][NextMain]_vars

\* The names the usage text and the spec call recognised: day1 .. day25.
DayNames ==
    { "day1", "day2", "day3", "day4", "day5", "day6", "day7", "day8", "day9",
      "day10", "day11", "day12", "day13", "day14", "day15", "day16", "day17",
      "day18", "day19", "day20", "day21", "day22", "day23", "day24", "day25" }

IsDayName(tok) == tok \in DayNames

\* C1: a token that equals none of day1..day25 produces no output and no
\* abort, and the recognised tokens are processed once per occurrence and in
\* argument order whatever unrecognised tokens stand around them: at every
\* point of the loop the blocks that ran are exactly the recognised tokens
\* among those passed so far, every printed line belongs to such a block, an
\* abort happens only at a recognised token, and a normal end has passed
\* every token.
C1_UnrecognisedIgnored ==
    pcMain \in {"loop", "exit", "panic"} /\ Len(args) > 1 =>
        /\ ran = SelectSeq(SubSeq(args, 2, pos - 1), IsDayName)
        /\ Range(stdout) \subseteq Range(ran)
        /\ pcMain = "panic" => IsDayName(args[pos])
        /\ pcMain = "exit" => pos = Len(args) + 1

\* A recognised token between two unrecognised ones has run, alone, and the
\* program ended normally.
C1_Witness ==
    /\ pcMain = "exit"
    /\ Len(args) = 4
    /\ ~IsDayName(args[2]) /\ IsDayName(args[3]) /\ ~IsDayName(args[4])
    /\ ran = <<args[3]>>
    /\ stdout = <<args[3]>>

----------------------------------------------------------------------------
(* day2: calc_position and calc_aim *)

MaxCommands == 3

\* str::parse::<i32>() / ::<i64>() on the fields tried: the decimal literals
\* parse to their value, anything else is an Err (None here).
IntLiterals == {<<"5", 5>>, <<"3", 3>>, <<"2", 2>>, <<"-4", -4>>}

ParseInt(field) ==
    IF \E l \in IntLiterals : l[1] = field
    THEN Some((CHOOSE l \in IntLiterals : l[1] = field)[2])
    ELSE None

\* A loop that takes the missing value of a one-field line for 0.
ValueOfLenient(parts) ==
    CASE Len(parts) = 0 -> None
      [] Len(parts) = 1 -> Some(0)
      [] OTHER          -> ParseInt(parts[2])

\* parts[1].parse().unwrap(): None stands for the panic, of the index on a
\* line of fewer than two fields or of unwrap() on a value that does not parse.
ValueOf(parts) == IF Len(parts) < 2 THEN None ELSE ParseInt(parts[2])

\* The lines tried, after split_whitespace: well-formed commands, a keyword
\* that is no command, a value that is no integer, a missing value and a
\* blank line.
Lines2 ==
    { <<"forward", "5">>, <<"forward", "2">>, <<"down", "3">>, <<"up", "2">>,
      <<"down", "-4">>, <<"back", "5">>, <<"forward", "x">>, <<"down">>, <<>> }

InitDay2 ==
    /\ commands \in SeqsUpTo(Lines2, MaxCommands)
    /\ idxPos = 1 /\ position = <<0, 0>> /\ retPos = None /\ pcPos = "run"
    /\ idxAim = 1 /\ heading = [aim |-> 0, position |-> 0, depth |-> 0]
    /\ retAim = None /\ pcAim = "run"
    /\ IdleMain /\ IdleDay22 /\ IdleDay6 /\ IdleDay14 /\ IdleDay15 /\ IdleDay18 /\ IdleDay23 /\ IdleDay4 /\ IdleDay5 /\ IdleDay3 /\ IdleDay7

\* calc_position: the match on parts[0]
PositionArm(keyword, x, y, value) ==
    CASE keyword = "forward" -> <<x + value, y>>
      [] keyword = "down"    -> <<x, y + value>>
      [] keyword = "up"      -> <<x, y - value>>
      [] OTHER               -> <<x, y>>

\* calc_position: one iteration of the loop.  The value is taken, and may
\* panic, before the keyword is looked at.
PositionStep ==
    /\ pcPos = "run"
    /\ idxPos <= Len(commands)
    /\ LET parts == commands[idxPos]
           value == ValueOf(parts)
       IN IF value = None
          THEN pcPos' = "panic" /\ UNCHANGED <<idxPos, position>>
          ELSE /\ position' = PositionArm(parts[1], position[1], position[2], value[1])
               /\ idxPos' = idxPos + 1
               /\ UNCHANGED pcPos
    /\ UNCHANGED <<commands, retPos, idxAim, heading, retAim, pcAim>>
    /\ UNCHANGED notDay2

\* calc_position: return position.0 * position.1
PositionReturn ==
    /\ pcPos = "run"
    /\ idxPos > Len(commands)
    /\ retPos' = Some(position[1] * position[2])
    /\ pcPos' = "done"
    /\ UNCHANGED <<commands, idxPos, position, idxAim, heading, retAim, pcAim>>
    /\ UNCHANGED notDay2

\* calc_aim: the match on parts[0]
AimArm(keyword, h, value) ==
    CASE keyword = "forward" ->
             [aim |-> h.aim, position |-> h.position + value,
              depth |-> h.depth + h.aim * value]
      [] keyword = "down" ->
             [aim |-> h.aim + value, position |-> h.position, depth |-> h.depth]
      [] keyword = "up" ->
             [aim |-> h.aim - value, position |-> h.position, depth |-> h.depth]
      [] OTHER -> h

\* calc_aim: one iteration of the loop
AimStep ==
    /\ pcAim = "run"
    /\ idxAim <= Len(commands)
    /\ LET parts == commands[idxAim]
           value == ValueOf(parts)
       IN IF value = None
          THEN pcAim' = "panic" /\ UNCHANGED <<idxAim, heading>>
          ELSE /\ heading' = AimArm(parts[1], heading, value[1])
               /\ idxAim' = idxAim + 1
               /\ UNCHANGED pcAim
    /\ UNCHANGED <<commands, idxPos, position, retPos, pcPos, retAim>>
    /\ UNCHANGED notDay2

\* calc_aim: return heading.position * heading.depth
AimReturn ==
    /\ pcAim = "run"
    /\ idxAim > Len(commands)
    /\ retAim' = Some(heading.position * heading.depth)
    /\ pcAim' = "done"
    /\ UNCHANGED <<commands, idxPos, position, retPos, pcPos, idxAim, heading>>
    /\ UNCHANGED notDay2

NextDay2 ==
    \/ PositionStep
    \/ PositionReturn
    \/ AimStep
    \/ AimReturn

SpecDay2 == InitDay2 /\ [][NextDay2]_vars

\* What the puzzle text defines, on the lines whose keyword is a command.
Keyword(i) == commands[i][1]

Value(i) == ParseInt(commands[i][2])[1]

RECURSIVE SumOf(_, _)
\* the sum of the values of the first n lines whose keyword is kw
SumOf(kw, n) ==
    IF n = 0 THEN 0
    ELSE SumOf(kw, n - 1) + (IF Keyword(n) = kw THEN Value(n) ELSE 0)

RECURSIVE DepthRef(_)
\* part 2's depth after n lines: each forward adds its value times the aim,
\* the downs minus the ups before it
DepthRef(n) ==
    IF n = 0 THEN 0
    ELSE DepthRef(n - 1)
         + (IF Keyword(n) = "forward"
            THEN Value(n) * (SumOf("down", n - 1) - SumOf("up", n - 1))
            ELSE 0)

PositionRef ==
    SumOf("forward", Len(commands))
        * (SumOf("down", Len(commands)) - SumOf("up", Len(commands)))

AimRef == SumOf("forward", Len(commands)) * DepthRef(Len(commands))

\* A line either function panics on: no second field, or one that is no integer.
NoValue(line) == Len(line) < 2 \/ ParseInt(line[2]) = None

\* A line whose keyword is none of the names the claim lists.
UnknownKeyword(line) ==
    Len(line) = 0
    \/ line[1] \notin {"forward", "down", "up", "calc_position", "calc_aim"}

HasLine(P(_)) == \E i \in DOMAIN commands : P(commands[i])

\* C2 as stated: a command list with a line of unknown keyword makes
\* calc_position and calc_aim abort and return no product.
C2_UnknownKeywordAborts ==
    HasLine(UnknownKeyword) =>
        /\ pcPos # "done" /\ retPos = None
        /\ pcAim # "done" /\ retAim = None

\* C2 amended: calc_position and calc_aim abort, returning nothing, exactly
\* on a list with a line that has no second field or whose second field is
\* no integer; a line with an integer but a keyword that is no command is
\* skipped, and the product returned is that of the other lines.
C2_AbortsOnMissingValueOnly ==
    /\ pcPos = "panic" => HasLine(NoValue) /\ retPos = None
    /\ pcAim = "panic" => HasLine(NoValue) /\ retAim = None
    /\ pcPos = "done" => ~HasLine(NoValue) /\ retPos = Some(PositionRef)
    /\ pcAim = "done" => ~HasLine(NoValue) /\ retAim = Some(AimRef)

\* Both functions returned a non-zero product for a list that holds a line of
\* unknown keyword.
C2_Witness ==
    /\ pcPos = "done" /\ pcAim = "done"
    /\ HasLine(UnknownKeyword)
    /\ retPos[1] # 0 /\ retAim[1] # 0

----------------------------------------------------------------------------
(* day22: cubes_on_50 and all_cubes_on *)

MaxSteps22 == 2

\* The initialization region of part 1
RegionMin == -50

RegionMax == 50

\* The coordinates the steps tried are built from: x around the upper edge of
\* the region, y at its lower edge, z in its middle.
Xs == {49, 50, 51}

Ys == {-50, -49}

Zs == {0, 1}

Cuboid(x0, x1, y0, y1, z0, z1) ==
    [x_min |-> x0, x_max |-> x1, y_min |-> y0, y_max |-> y1, z_min |-> z0, z_max |-> z1]

\* The cuboids a line of steps.txt may hold, with min <= max in each dimension
Cuboids22 ==
    { Cuboid(x0, x1, y0, y1, z0, z1) :
        x0 \in Xs, x1 \in Xs,
        y0 \in Ys, y1 \in Ys, z0 \in Zs, z1 \in Zs }

ValidCuboid(c) == c.x_min <= c.x_max /\ c.y_min <= c.y_max /\ c.z_min <= c.z_max

Steps22 == { [on |-> o, cuboid |-> c] : o \in BOOLEAN, c \in {c \in Cuboids22 : ValidCuboid(c)} }

\* Cuboid::new: None if the dimensions are invalid
CuboidNew(x0, x1, y0, y1, z0, z1) ==
    IF x0 > x1 \/ y0 > y1 \/ z0 > z1
    THEN None
    ELSE Some(Cuboid(x0, x1, y0, y1, z0, z1))

\* Cuboid::volume
Volume(c) ==
    (c.x_max - c.x_min + 1) * (c.y_max - c.y_min + 1) * (c.z_max - c.z_min + 1)

\* Cuboid::intersects
Intersects(self, other) ==
    /\ Min2(self.x_max, other.x_max) >= Max2(self.x_min, other.x_min)
    /\ Min2(self.y_max, other.y_max) >= Max2(self.y_min, other.y_min)
    /\ Min2(self.z_max, other.z_max) >= Max2(self.z_min, other.z_min)

\* A subtract whose slices above and below in y span the whole of self in x.
SubtractWideY(self, other) ==
    IF ~Intersects(self, other)
    THEN <<self>>
    ELSE CuboidNew(self.x_min, other.x_min - 1,
                   self.y_min, self.y_max, self.z_min, self.z_max)
      \o CuboidNew(other.x_max + 1, self.x_max,
                   self.y_min, self.y_max, self.z_min, self.z_max)
      \o CuboidNew(self.x_min, self.x_max,
                   self.y_min, other.y_min - 1, self.z_min, self.z_max)
      \o CuboidNew(self.x_min, self.x_max,
                   other.y_max + 1, self.y_max, self.z_min, self.z_max)
      \o CuboidNew(Max2(self.x_min, other.x_min), Min2(self.x_max, other.x_max),
                   Max2(self.y_min, other.y_min), Min2(self.y_max, other.y_max),
                   self.z_min, other.z_min - 1)
      \o CuboidNew(Max2(self.x_min, other.x_min), Min2(self.x_max, other.x_max),
                   Max2(self.y_min, other.y_min), Min2(self.y_max, other.y_max),
                   other.z_max + 1, self.z_max)

\* Cuboid::subtract: self itself if the two do not intersect, else the (up to)
\* six slices of self around other; filter_map drops the invalid ones, which
\* is the concatenation of the Options.
Subtract(self, other) ==
    IF ~Intersects(self, other)
    THEN <<self>>
    ELSE CuboidNew(self.x_min, other.x_min - 1,
                   self.y_min, self.y_max, self.z_min, self.z_max)
      \o CuboidNew(other.x_max + 1, self.x_max,
                   self.y_min, self.y_max, self.z_min, self.z_max)
      \o CuboidNew(Max2(self.x_min, other.x_min), Min2(self.x_max, other.x_max),
                   self.y_min, other.y_min - 1, self.z_min, self.z_max)
      \o CuboidNew(Max2(self.x_min, other.x_min), Min2(self.x_max, other.x_max),
                   other.y_max + 1, self.y_max, self.z_min, self.z_max)
      \o CuboidNew(Max2(self.x_min, other.x_min), Min2(self.x_max, other.x_max),
                   Max2(self.y_min, other.y_min), Min2(self.y_max, other.y_max),
                   self.z_min, other.z_min - 1)
      \o CuboidNew(Max2(self.x_min, other.x_min), Min2(self.x_max, other.x_max),
                   Max2(self.y_min, other.y_min), Min2(self.y_max, other.y_max),
                   other.z_max + 1, self.z_max)

\* cubes_on_50: the filter on the steps
InRegion(step) ==
    /\ step.cuboid.x_min >= RegionMin /\ step.cuboid.x_max <= RegionMax
    /\ step.cuboid.y_min >= RegionMin /\ step.cuboid.y_max <= RegionMax
    /\ step.cuboid.z_min >= RegionMin /\ step.cuboid.z_max <= RegionMax

\* The points the three nested loops of cubes_on_50 visit
PointsOf(c) == (c.x_min .. c.x_max) \X (c.y_min .. c.y_max) \X (c.z_min .. c.z_max)

RECURSIVE OnSetAfter(_, _)
\* cubes_on_50: the HashSet `on` after the first n filtered steps
OnSetAfter(filtered, n) ==
    IF n = 0 THEN {}
    ELSE LET on == OnSetAfter(filtered, n - 1)
             step == filtered[n]
         IN IF step.on THEN on \cup PointsOf(step.cuboid)
                       ELSE on \ PointsOf(step.cuboid)

cubes_on_50(ss) ==
    LET filtered_steps == SelectSeq(ss, InRegion)
    IN Cardinality(OnSetAfter(filtered_steps, Len(filtered_steps)))

RECURSIVE SliceAll(_, _, _)
\* all_cubes_on: sliced_cuboids after the first n of on_cuboids were subtracted from
SliceAll(on_cuboids, n, cuboid) ==
    IF n = 0 THEN <<>>
    ELSE SliceAll(on_cuboids, n - 1, cuboid) \o Subtract(on_cuboids[n], cuboid)

RECURSIVE OnCuboidsAfter(_, _)
\* all_cubes_on: on_cuboids after the first n steps
OnCuboidsAfter(ss, n) ==
    IF n = 0 THEN <<>>
    ELSE LET on_cuboids == OnCuboidsAfter(ss, n - 1)
             sliced_cuboids == SliceAll(on_cuboids, Len(on_cuboids), ss[n].cuboid)
         IN IF ss[n].on THEN Append(sliced_cuboids, ss[n].cuboid) ELSE sliced_cuboids

RECURSIVE SumVolume(_, _)
SumVolume(cs, n) == IF n = 0 THEN 0 ELSE SumVolume(cs, n - 1) + Volume(cs[n])

all_cubes_on(ss) ==
    LET on_cuboids == OnCuboidsAfter(ss, Len(ss))
    IN SumVolume(on_cuboids, Len(on_cuboids))

InitDay22 ==
    /\ \E n \in 0..MaxSteps22 : steps \in [1..n -> Steps22]
    /\ count50 = None
    /\ countAll = None
    /\ IdleMain /\ IdleDay2 /\ IdleDay6 /\ IdleDay14 /\ IdleDay15 /\ IdleDay18 /\ IdleDay23 /\ IdleDay4 /\ IdleDay5 /\ IdleDay3 /\ IdleDay7

\* main's part 1: cubes_on_50(&steps)
CubesOn50 ==
    /\ count50 = None
    /\ count50' = Some(cubes_on_50(steps))
    /\ UNCHANGED <<steps, countAll>>
    /\ UNCHANGED notDay22

\* main's part 2: all_cubes_on(&steps)
AllCubesOn ==
    /\ count50 # None
    /\ countAll = None
    /\ countAll' = Some(all_cubes_on(steps))
    /\ UNCHANGED <<steps, count50>>
    /\ UNCHANGED notDay22

NextDay22 ==
    \/ CubesOn50
    \/ AllCubesOn

SpecDay22 == InitDay22 /\ [][NextDay22]_vars

\* The puzzle's definition, point by point: a point is on after the steps if
\* the last step whose cuboid covers it is an "on" step.
Covers(c, pt) ==
    /\ c.x_min <= pt[1] /\ pt[1] <= c.x_max
    /\ c.y_min <= pt[2] /\ pt[2] <= c.y_max
    /\ c.z_min <= pt[3] /\ pt[3] <= c.z_max

IsOnAfter(ss, pt) ==
    LET covering == {i \in DOMAIN ss : Covers(ss[i].cuboid, pt)}
    IN covering # {} /\ ss[SetMax(covering)].on

\* Every point a step tried can cover, and those of them in the region
AllPoints22 == Xs \X Ys \X Zs

RegionPoints22 ==
    {pt \in AllPoints22 : \A d \in 1..3 : RegionMin <= pt[d] /\ pt[d] <= RegionMax}

\* C3: for steps that all lie inside -50..50, all_cubes_on returns the same
\* number as the point-by-point cubes_on_50: the number of points that are on
\* after the steps are applied in order.
C3_AllCubesEqualsPointCount ==
    (countAll # None /\ \A i \in DOMAIN steps : InRegion(steps[i])) =>
        /\ countAll = count50
        /\ countAll[1] = Cardinality({pt \in AllPoints22 : IsOnAfter(steps, pt)})

\* Two steps inside the region, the second cutting a corner out of or into
\* the cuboid of the first, which is left in three slices.
C3_Witness ==
    /\ countAll # None
    /\ Len(steps) = 2
    /\ InRegion(steps[1]) /\ InRegion(steps[2])
    /\ steps[1].on
    /\ Len(Subtract(steps[1].cuboid, steps[2].cuboid)) = 3
    /\ countAll[1] > 0

\* C10: cubes_on_50 returns the number of points of the region -50..50 that
\* are on after all the steps, also when a step's cuboid lies partly inside
\* and partly outside the region.
C10_CountsRegionPoints ==
    count50 # None =>
        count50[1] = Cardinality({pt \in RegionPoints22 : IsOnAfter(steps, pt)})

----------------------------------------------------------------------------
(* day6: calc_growth and model_growth *)

MaxFish == 2

MaxDays6 == 20

\* The timers a fish can show: a new fish has 8, a fish at 0 resets to 6
Timers == 0..8

InitDay6 ==
    /\ fish0 \in SeqsUpTo(Timers, MaxFish)
    /\ days6 \in 0..MaxDays6
    /\ school = fish0
    /\ day6 = 0
    /\ retCalc = None
    /\ retModel = None
    /\ IdleMain /\ IdleDay2 /\ IdleDay22 /\ IdleDay14 /\ IdleDay15 /\ IdleDay18 /\ IdleDay23 /\ IdleDay4 /\ IdleDay5 /\ IdleDay3 /\ IdleDay7

\* A day whose loop bound is read again at every pass, so that a fish born
\* today is decremented today.
DayStepEager(f) ==
    LET dec == [i \in 1..Len(f) |-> IF f[i] - 1 < 0 THEN 6 ELSE f[i] - 1]
        born == Cardinality({i \in 1..Len(f) : f[i] - 1 < 0})
    IN dec \o [i \in 1..born |-> 7]

\* calc_growth: one pass of the outer loop.  The inner loop runs over the
\* fish present when it starts (0..fish.len() is evaluated once): each is
\* decremented, and one below 0 is set to 6 and pushes a fish with timer 8.
DayStep(f) ==
    LET dec == [i \in 1..Len(f) |-> IF f[i] - 1 < 0 THEN 6 ELSE f[i] - 1]
        born == Cardinality({i \in 1..Len(f) : f[i] - 1 < 0})
    IN dec \o [i \in 1..born |-> 8]

CalcGrowthDay ==
    /\ retCalc = None
    /\ day6 < days6
    /\ school' = DayStep(school)
    /\ day6' = day6 + 1
    /\ UNCHANGED <<fish0, days6, retCalc, retModel>>
    /\ UNCHANGED notDay6

\* calc_growth: return fish.len()
CalcGrowthReturn ==
    /\ retCalc = None
    /\ day6 = days6
    /\ retCalc' = Some(Len(school))
    /\ UNCHANGED <<fish0, days6, school, day6, retModel>>
    /\ UNCHANGED notDay6

RECURSIVE total_fish(_, _, _)
RECURSIVE SpawnLoop(_, _, _, _)

\* total_fish: the while loop, from its state (fish, days_left, total) and
\* the memo map; gives the final total and the memo map
SpawnLoop(fish, days_left, total, memo) ==
    IF fish < days_left
    THEN LET left == days_left - fish - 1
             child == total_fish(8, left, memo)
         IN SpawnLoop(6, left, total + child.total, child.memo)
    ELSE [total |-> total, memo |-> memo]

\* total_fish: the memoised count of the fish one fish becomes in `days` days
total_fish(initial_fish, days, memo) ==
    IF <<initial_fish, days>> \in DOMAIN memo
    THEN [total |-> memo[<<initial_fish, days>>], memo |-> memo]
    ELSE LET r == SpawnLoop(initial_fish, days, 1, memo)
         IN [total |-> r.total,
             memo |-> (<<initial_fish, days>> :> r.total) @@ r.memo]

RECURSIVE ModelGrowthFrom(_, _, _, _, _)
\* model_growth: the loop over fish from index i, with the total and the memo
ModelGrowthFrom(fish, i, days, total, memo) ==
    IF i > Len(fish) THEN total
    ELSE LET r == total_fish(fish[i], days, memo)
         IN ModelGrowthFrom(fish, i + 1, days, total + r.total, r.memo)

model_growth(fish, days) == ModelGrowthFrom(fish, 1, days, 0, <<>>)

ModelGrowth ==
    /\ retModel = None
    /\ retModel' = Some(model_growth(fish0, days6))
    /\ UNCHANGED <<fish0, days6, school, day6, retCalc>>
    /\ UNCHANGED notDay6

NextDay6 ==
    \/ CalcGrowthDay
    \/ CalcGrowthReturn
    \/ ModelGrowth

SpecDay6 == InitDay6 /\ [][NextDay6]_vars

\* C8: for initial timers in 0..8 and d >= 0 days the memoised recursion
\* model_growth returns the population the day-by-day simulation calc_growth
\* returns.
C8_ModelEqualsSimulation ==
    (retCalc # None /\ retModel # None) => retModel = retCalc

\* Both returned after enough days for a fish born during the run to have
\* spawned itself.
C8_Witness ==
    /\ retCalc # None /\ retModel # None
    /\ Len(fish0) = 2
    /\ days6 >= 17
    /\ \E i \in DOMAIN school : \E j \in DOMAIN school :
           i > Len(fish0) /\ j > i /\ school[i] < 6 /\ school[j] = 8

----------------------------------------------------------------------------
(* day14: common_polymers and polymers_as_pairs *)

MaxTemplate == 3

MaxSteps14 == 3

Elements == {"B", "C"}

\* A two-character key of the rule map, as the pair of its characters
Pairs14 == Elements \X Elements

InitDay14 ==
    /\ \E n \in 1..MaxTemplate : template \in [1..n -> Elements]
    /\ rules \in [Pairs14 -> Elements]
    /\ nsteps \in 0..MaxSteps14
    /\ polymer = template
    /\ stepsDone = 0
    /\ pair_count = <<>>
    /\ pairsDone = -1
    /\ retCommon = None
    /\ retPairs = None
    /\ IdleMain /\ IdleDay2 /\ IdleDay22 /\ IdleDay6 /\ IdleDay15 /\ IdleDay18 /\ IdleDay23 /\ IdleDay4 /\ IdleDay5 /\ IdleDay3 /\ IdleDay7

\* *map.entry(key).or_insert(0) += n
AddTo(map, key, n) ==
    IF key \in DOMAIN map
    THEN [map EXCEPT ![key] = @ + n]
    ELSE (key :> n) @@ map

RECURSIVE Windows(_, _)
\* start.windows(2), up to the window that starts at index n
Windows(start, n) ==
    IF n = 0 THEN <<>> ELSE Append(Windows(start, n - 1), <<start[n], start[n + 1]>>)

RECURSIVE InsertAll(_, _, _)
\* next_polymer: the fold over the first n windows
InsertAll(windows, n, pair_insertion) ==
    IF n = 0 THEN <<>>
    ELSE InsertAll(windows, n - 1, pair_insertion)
         \o <<windows[n][1], pair_insertion[windows[n]]>>

next_polymer(start, pair_insertion) ==
    LET windows == Windows(start, Len(start) - 1)
    IN Append(InsertAll(windows, Len(windows), pair_insertion), start[Len(start)])

RECURSIVE CountElements(_, _)
\* the fold that counts each character of the first n of a polymer
CountElements(p, n) ==
    IF n = 0 THEN <<>> ELSE AddTo(CountElements(p, n - 1), p[n], 1)

\* element_count.values().max().unwrap() - element_count.values().min().unwrap()
Spread(element_count) ==
    LET values == {element_count[k] : k \in DOMAIN element_count}
    IN SetMax(values) - SetMin(values)

\* common_polymers: one pass of its loop
NextPolymer ==
    /\ retCommon = None
    /\ stepsDone < nsteps
    /\ polymer' = next_polymer(polymer, rules)
    /\ stepsDone' = stepsDone + 1
    /\ UNCHANGED <<template, rules, nsteps, pair_count, pairsDone, retCommon, retPairs>>
    /\ UNCHANGED notDay14

\* common_polymers: count the characters and return
CommonReturn ==
    /\ retCommon = None
    /\ stepsDone = nsteps
    /\ retCommon' = Some(Spread(CountElements(polymer, Len(polymer))))
    /\ UNCHANGED <<template, rules, nsteps, polymer, stepsDone, pair_count, pairsDone, retPairs>>
    /\ UNCHANGED notDay14

\* A pair map that forgets the second new pair.
PairMapLeftOnly(pair_insertion) ==
    [k \in DOMAIN pair_insertion |-> << <<k[1], pair_insertion[k]>> >>]

\* polymers_as_pairs: pair_map, from a pair to the two pairs it becomes
PairMap(pair_insertion) ==
    [k \in DOMAIN pair_insertion |->
        << <<k[1], pair_insertion[k]>>, <<pair_insertion[k], k[2]>> >>]

RECURSIVE CountWindows(_, _)
\* the fold that counts the first n windows of the template
CountWindows(windows, n) ==
    IF n = 0 THEN <<>> ELSE AddTo(CountWindows(windows, n - 1), windows[n], 1)

RECURSIVE AddPairs(_, _, _, _)
\* `for p in new_pairs`: the count of the original pair added to the first n
AddPairs(map, new_pairs, n, count) ==
    IF n = 0 THEN map
    ELSE AddTo(AddPairs(map, new_pairs, n - 1, count), new_pairs[n], count)

RECURSIVE GrowPairs(_, _, _)
\* one pass of the loop: the fold over the entries of pair_count still to
\* visit; a HashMap visits them in some order, and since the fold only adds,
\* every order gives this map
GrowPairs(counts, todo, pair_map) ==
    IF todo = {} THEN <<>>
    ELSE LET pair == CHOOSE k \in todo : TRUE
             new_pairs == pair_map[pair]
         IN AddPairs(GrowPairs(counts, todo \ {pair}, pair_map),
                     new_pairs, Len(new_pairs), counts[pair])

RECURSIVE CountFirsts(_, _)
\* the fold that adds each pair's count to its first character
CountFirsts(counts, todo) ==
    IF todo = {} THEN <<>>
    ELSE LET pair == CHOOSE k \in todo : TRUE
         IN AddTo(CountFirsts(counts, todo \ {pair}), pair[1], counts[pair])

\* polymers_as_pairs: pair_map is built and the pairs of the template counted
PairsStart ==
    /\ retPairs = None
    /\ pairsDone = -1
    /\ pair_count' = LET windows == Windows(template, Len(template) - 1)
                     IN CountWindows(windows, Len(windows))
    /\ pairsDone' = 0
    /\ UNCHANGED <<template, rules, nsteps, polymer, stepsDone, retCommon, retPairs>>
    /\ UNCHANGED notDay14

\* polymers_as_pairs: one pass of its loop
PairsStep ==
    /\ retPairs = None
    /\ pairsDone >= 0
    /\ pairsDone < nsteps
    /\ pair_count' = GrowPairs(pair_count, DOMAIN pair_count, PairMap(rules))
    /\ pairsDone' = pairsDone + 1
    /\ UNCHANGED <<template, rules, nsteps, polymer, stepsDone, retCommon, retPairs>>
    /\ UNCHANGED notDay14

\* polymers_as_pairs: count the first characters, add the last one, return
PairsReturn ==
    /\ retPairs = None
    /\ pairsDone = nsteps
    /\ LET element_count ==
            AddTo(CountFirsts(pair_count, DOMAIN pair_count),
                  template[Len(template)], 1)
       IN retPairs' = Some(Spread(element_count))
    /\ UNCHANGED <<template, rules, nsteps, polymer, stepsDone, pair_count, pairsDone, retCommon>>
    /\ UNCHANGED notDay14

NextDay14 ==
    \/ NextPolymer
    \/ CommonReturn
    \/ PairsStart
    \/ PairsStep
    \/ PairsReturn

SpecDay14 == InitDay14 /\ [][NextDay14]_vars

\* The number of times element e occurs in polymer p
Occurrences(p, e) == Cardinality({i \in DOMAIN p : p[i] = e})

\* C9: for a non-empty template, a rule for every pair and n >= 0 steps, the
\* pair-counting polymers_as_pairs returns what the explicit-string
\* common_polymers returns: the count of the most common element of the
\* polymer after n steps minus the count of its least common element.
C9_PairsEqualsExplicit ==
    (retCommon # None /\ retPairs # None) =>
        /\ retPairs = retCommon
        /\ LET occ == {Occurrences(polymer, e) : e \in Range(polymer)}
           IN retCommon[1] = SetMax(occ) - SetMin(occ)

\* Both returned a non-zero difference after at least two steps on a
\* template of both elements.
C9_Witness ==
    /\ retCommon # None /\ retPairs # None
    /\ nsteps >= 2
    /\ Range(template) = Elements
    /\ retPairs[1] > 0

----------------------------------------------------------------------------
(* day15: dijkstra *)

MaxRows == 3

MaxCols == 5

\* The grids tried: every cell has the same low risk, 0 or 1, but for at
\* most MaxHigh cells of risk 9, none of them in the first or last column.
MaxHigh == 4

HighRisk == 9

I32Max == 2147483647

RECURSIVE SubsetsUpTo(_, _)
\* the subsets of S of at most k elements
SubsetsUpTo(S, k) ==
    IF k = 0 THEN {{}}
    ELSE LET smaller == SubsetsUpTo(S, k - 1)
         IN smaller \cup {T \cup {x} : T \in smaller, x \in S}

\* Rows and columns are numbered from 1 here, from 0 in the code.
NumRows(g) == Len(g)

NumCols(g) == Len(g[1])

Target(g) == <<NumRows(g), NumCols(g)>>

InitDay15 ==
    /\ \E r \in 1..MaxRows, c \in 1..MaxCols, low \in {0, 1} :
         \E high \in SubsetsUpTo((1..r) \X (2..(c - 1)), MaxHigh) :
            grid = [row \in 1..r |-> [col \in 1..c |->
                        IF <<row, col>> \in high THEN HighRisk ELSE low]]
    /\ distances = [row \in 1..NumRows(grid) |-> [col \in 1..NumCols(grid) |->
                        IF <<row, col>> = <<1, 1>> THEN 0 ELSE I32Max]]
    /\ queue = {[cost |-> 0, position |-> <<1, 1>>]}
    /\ pc15 = "loop"
    /\ ret15 = None
    /\ IdleMain /\ IdleDay2 /\ IdleDay22 /\ IdleDay6 /\ IdleDay14 /\ IdleDay18 /\ IdleDay23 /\ IdleDay4 /\ IdleDay5 /\ IdleDay3 /\ IdleDay7

\* A find_adjacent that looks down and right only.
find_adjacent_forward(row, col, g) ==
    [i \in 1..(IF row < NumRows(g) THEN 1 ELSE 0) |-> <<row + 1, col>>]
    \o [i \in 1..(IF col < NumCols(g) THEN 1 ELSE 0) |-> <<row, col + 1>>]

\* find_adjacent: the rows from row - 1 (not below the first) to row + 1 (not
\* above the last) other than row, in this column, then the same for columns
find_adjacent(row, col, g) ==
    LET rlo == IF row = 1 THEN 1 ELSE row - 1
        rhi == Min2(row + 1, NumRows(g))
        clo == IF col = 1 THEN 1 ELSE col - 1
        chi == Min2(col + 1, NumCols(g))
        rs == SelectSeq([i \in 1..(rhi - rlo + 1) |-> rlo + i - 1], LAMBDA r : r # row)
        cs == SelectSeq([i \in 1..(chi - clo + 1) |-> clo + i - 1], LAMBDA c : c # col)
    IN [i \in 1..Len(rs) |-> <<rs[i], col>>] \o [i \in 1..Len(cs) |-> <<row, cs[i]>>]

\* (usize, usize)::cmp: lexicographic
PosLess(p, q) == p[1] < q[1] \/ (p[1] = q[1] /\ p[2] < q[2])

\* Risk::cmp(a, b) = Less: the cost reversed, then the position
RiskLess(a, b) ==
    b.cost < a.cost \/ (a.cost = b.cost /\ PosLess(a.position, b.position))

\* BinaryHeap::pop: the greatest element
HeapTop(q) == CHOOSE e \in q : \A f \in q : f = e \/ RiskLess(f, e)

RECURSIVE Relax(_, _, _, _, _)
\* dijkstra: the loop over the neighbours of the current position, from the
\* n-th on; gives the distances and the queue after it
Relax(neighbors, n, current, dist, q) ==
    IF n > Len(neighbors) THEN [distances |-> dist, queue |-> q]
    ELSE LET nb == neighbors[n]
             cost == dist[current[1]][current[2]] + grid[nb[1]][nb[2]]
         IN IF cost < dist[nb[1]][nb[2]]
            THEN Relax(neighbors, n + 1, current,
                       [dist EXCEPT ![nb[1]][nb[2]] = cost],
                       q \cup {[cost |-> cost, position |-> nb]})
            ELSE Relax(neighbors, n + 1, current, dist, q)

\* dijkstra: one pass of `while let Some(current) = queue.pop()`
DijkstraPop ==
    /\ pc15 = "loop"
    /\ queue # {}
    /\ LET current == HeapTop(queue)
           rest == queue \ {current}
           row == current.position[1]
           col == current.position[2]
       IN IF current.position = Target(grid)
          THEN /\ pc15' = "break"
               /\ queue' = rest
               /\ UNCHANGED distances
          ELSE IF current.cost > distances[row][col]
          THEN /\ queue' = rest
               /\ UNCHANGED <<distances, pc15>>
          ELSE LET nbs == find_adjacent(row, col, grid)
                   after == Relax(nbs, 1, current.position, distances, rest)
               IN /\ distances' = after.distances
                  /\ queue' = after.queue
                  /\ UNCHANGED pc15
    /\ UNCHANGED <<grid, ret15>>
    /\ UNCHANGED notDay15

\* dijkstra: the loop has ended, by break or on an empty queue
DijkstraReturn ==
    /\ pc15 = "break" \/ (pc15 = "loop" /\ queue = {})
    /\ ret15' = Some(distances[Target(grid)[1]][Target(grid)[2]])
    /\ pc15' = "done"
    /\ UNCHANGED <<grid, distances, queue>>
    /\ UNCHANGED notDay15

NextDay15 ==
    \/ DijkstraPop
    \/ DijkstraReturn

SpecDay15 == InitDay15 /\ [][NextDay15]_vars

\* The puzzle's definition: the least total risk of the cells entered on a
\* path of up/down/left/right moves.  It is computed over best, a sequence
\* that holds for each cell, numbered row by row, the least risk of a path
\* from the top left cell to it of a bounded number of moves (I32Max: there
\* is none).
NumCells == NumRows(grid) * NumCols(grid)

CellAt(n) == <<((n - 1) \div NumCols(grid)) + 1, ((n - 1) % NumCols(grid)) + 1>>

IndexOf(cell) == (cell[1] - 1) * NumCols(grid) + cell[2]

Neighbours(cell) ==
    {q \in {<<cell[1] - 1, cell[2]>>, <<cell[1] + 1, cell[2]>>,
             <<cell[1], cell[2] - 1>>, <<cell[1], cell[2] + 1>>} :
        q[1] \in 1..NumRows(grid) /\ q[2] \in 1..NumCols(grid)}

\* With one more move a cell keeps its value or is entered from a neighbour.
BestOf(best, cell) ==
    SetMin({best[IndexOf(cell)]} \cup
           {best[IndexOf(q)] + grid[cell[1]][cell[2]] :
               q \in {q \in Neighbours(cell) : best[IndexOf(q)] < I32Max}})

RECURSIVE OneMoreMove(_, _)
\* the first n cells of best when one more move is allowed
OneMoreMove(best, n) ==
    IF n = 0 THEN <<>>
    ELSE Append(OneMoreMove(best, n - 1), BestOf(best, CellAt(n)))

RECURSIVE BestWithin(_, _, _)
\* best after k more moves are allowed, next being best after one more;
\* when one more move changes nothing, no number of moves will
BestWithin(best, next, k) ==
    IF k = 0 \/ next = best THEN best
    ELSE BestWithin(next, OneMoreMove(next, NumCells), k - 1)

RECURSIVE NoMoves(_)
NoMoves(n) ==
    IF n = 0 THEN <<>> ELSE Append(NoMoves(n - 1), IF n = 1 THEN 0 ELSE I32Max)

\* A path without repeated cells has fewer moves than there are cells.
LowestRisk ==
    BestWithin(NoMoves(NumCells), OneMoreMove(NoMoves(NumCells), NumCells),
               NumCells - 1)[NumCells]

\* C7: on a non-empty rectangular grid of non-negative risks dijkstra
\* returns the minimum over all paths from the top left to the bottom right
\* cell of the sum of the risks of the cells entered; stopping at the target
\* and skipping stale queue entries never gives a larger value.
C7_DijkstraIsMinimum ==
    pc15 = "done" => ret15 = Some(LowestRisk)

\* dijkstra returned on a grid whose only cheapest path turns back up: it
\* costs 10, and every path of right and down moves alone enters a cell of
\* risk 9.
C7_Witness ==
    /\ pc15 = "done"
    /\ NumRows(grid) = 3 /\ NumCols(grid) = 5
    /\ grid[1][2] = HighRisk /\ grid[2][2] = HighRisk
    /\ grid[2][4] = HighRisk /\ grid[3][4] = HighRisk
    /\ grid[1][1] = 1
    /\ ret15 = Some(10)

----------------------------------------------------------------------------
(* day18: snailfish numbers *)

\* A SnailNumberNode is <<value>> for a regular number and <<left, right>>
\* for a pair.  A node is known by its path from the root of the number it
\* is part of (1: left, 2: right), which stands for the id and the parent
\* link of the code.
MaxLines18 == 3

MaxLeaves == 5

Vals18 == {1, 5, 9}

Digits == <<"0", "1", "2", "3", "4", "5", "6", "7", "8", "9">>

IsValue(node) == Len(node) = 1

RECURSIVE Shapes(_, _)
\* the numbers of exactly n regular numbers, each of them v
Shapes(n, v) ==
    IF n = 1 THEN {<<v>>}
    ELSE UNION {{<<l, r>> : l \in Shapes(k, v), r \in Shapes(n - k, v)} : k \in 1..(n - 1)}

RECURSIVE NoDeeperThan(_, _)
\* no pair of the number is nested inside more than `inside` pairs
NoDeeperThan(node, inside) ==
    IsValue(node) \/ (/\ inside >= 0
                      /\ NoDeeperThan(node[1], inside - 1)
                      /\ NoDeeperThan(node[2], inside - 1))

RECURSIVE Debug(_)
\* fmt::Debug for SnailNumberNode, as a sequence of characters
Debug(node) ==
    IF IsValue(node) THEN <<Digits[node[1] + 1]>>
    ELSE <<"[">> \o Debug(node[1]) \o <<",">> \o Debug(node[2]) \o <<"]">>

\* The operands tried: the reduced numbers of 2 to MaxLeaves regular
\* numbers, all of them the same.
Operands18 ==
    {Debug(n) : n \in {n \in UNION {Shapes(k, v) : k \in 2..MaxLeaves, v \in Vals18} :
                          NoDeeperThan(n, 3)}}

\* The lines of a longer homework: a pair of two regular numbers.
SimplePairs == {Debug(<<<<v>>, <<w>>>>) : v \in Vals18, w \in Vals18}

RECURSIVE parse_snail_number(_, _)
\* parse_snail_number(&chars[at..]), at counted from 1; index is the offset
\* of the closing bracket, as returned
parse_snail_number(chars, at) ==
    LET Side(index) ==
            IF chars[at + index] = "["
            THEN LET inner == parse_snail_number(chars, at + index)
                 IN [number |-> inner.number, index |-> index + inner.index + 1]
            ELSE [number |-> <<CHOOSE d \in 0..9 : Digits[d + 1] = chars[at + index]>>,
                  index |-> index + 1]
        left == Side(1)
        right == Side(left.index + 1)
    IN [number |-> <<left.number, right.number>>, index |-> right.index]

parse_line(input) == parse_snail_number(input, 1).number

RECURSIVE NodeAt(_, _)
NodeAt(number, path) ==
    IF path = <<>> THEN number ELSE NodeAt(number[Head(path)], Tail(path))

RECURSIVE SetAt(_, _, _)
\* the number with the node at path replaced
SetAt(number, path, node) ==
    IF path = <<>> THEN node
    ELSE [number EXCEPT ![Head(path)] = SetAt(number[Head(path)], Tail(path), node)]

nested(path) == Len(path) + 1

RECURSIVE Traverse(_, _, _)
\* the loops of nearest_left and nearest_right: go down on one side until a
\* regular number is found
Traverse(number, path, side) ==
    IF IsValue(NodeAt(number, path)) THEN path
    ELSE Traverse(number, Append(path, side), side)

RECURSIVE nearest_left(_, _)
nearest_left(number, path) ==
    IF path = <<>> THEN None
    ELSE LET parent == SubSeq(path, 1, Len(path) - 1)
         IN IF path[Len(path)] = 1 THEN nearest_left(number, parent)
            ELSE Some(Traverse(number, Append(parent, 1), 2))

RECURSIVE nearest_right(_, _)
nearest_right(number, path) ==
    IF path = <<>> THEN None
    ELSE LET parent == SubSeq(path, 1, Len(path) - 1)
         IN IF path[Len(path)] = 2 THEN nearest_right(number, parent)
            ELSE Some(Traverse(number, Append(parent, 2), 1))

RECURSIVE magnitude(_)
magnitude(node) ==
    IF IsValue(node) THEN node[1]
    ELSE 3 * magnitude(node[1]) + 2 * magnitude(node[2])

RECURSIVE ExplodeAt(_, _)
\* explode: the path of the pair that explodes, the first in the order of
\* the recursion, None if explode returns false
ExplodeAt(number, path) ==
    IF IsValue(NodeAt(number, path)) THEN None
    ELSE IF nested(path) = 5 THEN Some(path)
    ELSE LET left == ExplodeAt(number, Append(path, 1))
         IN IF left # None THEN left ELSE ExplodeAt(number, Append(path, 2))

\* explode: a neighbour takes the regular number of the exploding pair's
\* child; None when that child is a pair (value.unwrap() panics)
AddTo18(number, neighbour, child) ==
    IF number = None \/ neighbour = None THEN number
    ELSE IF ~IsValue(child) THEN None
    ELSE SetAt(number, neighbour[1], <<NodeAt(number, neighbour[1])[1] + child[1]>>)

\* explode at the pair found: the number after it, None for a panic
explode(number, path) ==
    LET pair == NodeAt(number, path)
        afterLeft == AddTo18(number, nearest_left(number, path), pair[1])
        afterRight == AddTo18(afterLeft, nearest_right(number, path), pair[2])
    IN IF afterRight = None THEN None ELSE SetAt(afterRight, path, <<0>>)

\* A split that leaves 10 alone.
MustSplitOverTen(val) == val > 10

MustSplit(val) == val > 9

RECURSIVE SplitAt(_, _)
\* split: the path of the regular number that splits, the first in the order
\* of the recursion, None if split returns false
SplitAt(number, path) ==
    LET node == NodeAt(number, path)
    IN IF IsValue(node) THEN (IF MustSplit(node[1]) THEN Some(path) ELSE None)
       ELSE LET left == SplitAt(number, Append(path, 1))
            IN IF left # None THEN left ELSE SplitAt(number, Append(path, 2))

\* split at the regular number found: floor and ceil of its half
split(number, path) ==
    LET val == NodeAt(number, path)[1]
    IN SetAt(number, path, <<<<val \div 2>>, <<(val + 1) \div 2>>>>)

RECURSIVE FirstLoop(_, _, _)
\* find_largest_combo_magnitude: the (i, j) of its first pair of loops from
\* (i, j) on, counted from 0
FirstLoop(i, j, len) ==
    IF i >= len THEN <<>>
    ELSE IF j >= len THEN FirstLoop(i + 1, i + 2, len)
    ELSE <<<<i, j>>>> \o FirstLoop(i, j + 1, len)

RECURSIVE SecondLoop(_, _)
\* and of its second from (i, j) on: i down to 1, j from i - 2 down to 0
SecondLoop(i, j) ==
    IF i < 1 THEN <<>>
    ELSE IF j < 0 THEN SecondLoop(i - 1, i - 3)
    ELSE <<<<i, j>>>> \o SecondLoop(i, j - 1)

\* the additions find_largest_combo_magnitude makes, in order
Additions(len) == FirstLoop(0, 1, len) \o SecondLoop(len - 1, len - 3)

InitDay18 ==
    /\ \E n \in 0..MaxLines18 :
          lines18 \in [1..n -> IF n <= 2 THEN Operands18 ELSE SimplePairs]
    /\ added18 = 0
    /\ number18 = None
    /\ largest18 = 0
    /\ pc18 = "next"
    /\ ret18 = None
    /\ IdleMain /\ IdleDay2 /\ IdleDay22 /\ IdleDay6 /\ IdleDay14 /\ IdleDay15 /\ IdleDay23 /\ IdleDay4 /\ IdleDay5 /\ IdleDay3 /\ IdleDay7

\* find_largest_combo_magnitude: parse the two lines of the next addition;
\* add: make the pair of them
Add18 ==
    /\ pc18 = "next"
    /\ added18 < Len(Additions(Len(lines18)))
    /\ LET ij == Additions(Len(lines18))[added18 + 1]
           lhs == parse_line(lines18[ij[1] + 1])
           rhs == parse_line(lines18[ij[2] + 1])
       IN number18' = Some(<<lhs, rhs>>)
    /\ pc18' = "reduce"
    /\ UNCHANGED <<lines18, added18, largest18, ret18>>
    /\ UNCHANGED notDay18

\* reduce: explode returned true
Explode18 ==
    /\ pc18 = "reduce"
    /\ ExplodeAt(number18[1], <<>>) # None
    /\ LET after == explode(number18[1], ExplodeAt(number18[1], <<>>)[1])
       IN IF after = None
          THEN pc18' = "panic" /\ UNCHANGED number18
          ELSE number18' = Some(after) /\ UNCHANGED pc18
    /\ UNCHANGED <<lines18, added18, largest18, ret18>>
    /\ UNCHANGED notDay18

\* reduce: explode returned false and split true
Split18 ==
    /\ pc18 = "reduce"
    /\ ExplodeAt(number18[1], <<>>) = None
    /\ SplitAt(number18[1], <<>>) # None
    /\ number18' = Some(split(number18[1], SplitAt(number18[1], <<>>)[1]))
    /\ UNCHANGED <<lines18, added18, largest18, pc18, ret18>>
    /\ UNCHANGED notDay18

\* reduce: both returned false; reduce and add return the number
AddReturn ==
    /\ pc18 = "reduce"
    /\ ExplodeAt(number18[1], <<>>) = None
    /\ SplitAt(number18[1], <<>>) = None
    /\ pc18' = "added"
    /\ UNCHANGED <<lines18, added18, number18, largest18, ret18>>
    /\ UNCHANGED notDay18

\* find_largest_combo_magnitude: compare the magnitude with the largest
Compare18 ==
    /\ pc18 = "added"
    /\ largest18' = Max2(largest18, magnitude(number18[1]))
    /\ added18' = added18 + 1
    /\ number18' = None
    /\ pc18' = "next"
    /\ UNCHANGED <<lines18, ret18>>
    /\ UNCHANGED notDay18

\* find_largest_combo_magnitude: both pairs of loops are over
Return18 ==
    /\ pc18 = "next"
    /\ added18 = Len(Additions(Len(lines18)))
    /\ ret18' = Some(largest18)
    /\ pc18' = "done"
    /\ UNCHANGED <<lines18, added18, number18, largest18>>
    /\ UNCHANGED notDay18

NextDay18 ==
    \/ Add18
    \/ Explode18
    \/ Split18
    \/ AddReturn
    \/ Compare18
    \/ Return18

SpecDay18 == InitDay18 /\ [][NextDay18]_vars

RECURSIVE Reduced18(_)
\* the number reduce returns for a number, by the puzzle's rules
Reduced18(number) ==
    IF ExplodeAt(number, <<>>) # None
    THEN Reduced18(explode(number, ExplodeAt(number, <<>>)[1]))
    ELSE IF SplitAt(number, <<>>) # None
    THEN Reduced18(split(number, SplitAt(number, <<>>)[1]))
    ELSE number

\* the magnitude of add(a, b) on freshly parsed lines a and b
SumMagnitude(a, b) == magnitude(Reduced18(<<parse_line(a), parse_line(b)>>))

RECURSIVE AllAtMost9(_)
AllAtMost9(node) ==
    IF IsValue(node) THEN node[1] <= 9 ELSE AllAtMost9(node[1]) /\ AllAtMost9(node[2])

\* no pair nested inside four pairs, every regular number <= 9
IsReduced(number) == NoDeeperThan(number, 3) /\ AllAtMost9(number)

\* The addition being made, as (i, j) counted from 1
Current18 ==
    <<Additions(Len(lines18))[added18 + 1][1] + 1,
      Additions(Len(lines18))[added18 + 1][2] + 1>>

\* C5: find_largest_combo_magnitude returns the largest magnitude of
\* add(a, b) over all ordered pairs (a, b) of two different lines of the
\* input: every two distinct indices are added in both orders.
C5_LargestOfAllOrderedPairs ==
    pc18 = "done" /\ Len(lines18) >= 2 =>
        ret18 = Some(SetMax({SumMagnitude(lines18[ij[1]], lines18[ij[2]]) :
                                ij \in {ij \in (1..Len(lines18)) \X (1..Len(lines18)) :
                                            ij[1] # ij[2]}}))

\* C6: for reduced lhs and rhs, add(lhs, rhs) returns a reduced number: no
\* pair nested inside four pairs and no regular number greater than 9.
C6_SumIsReduced ==
    /\ pc18 # "panic"
    /\ pc18 = "added"
           /\ IsReduced(parse_line(lines18[Current18[1]]))
           /\ IsReduced(parse_line(lines18[Current18[2]]))
       => IsReduced(number18[1])

\* add returned for two reduced operands of 9s alone whose pair holds a pair
\* nested inside four pairs (it explodes), and the sum holds a regular
\* number from 1 to 8, which only a split can have made.
C6_Witness ==
    /\ pc18 = "added"
    /\ IsReduced(parse_line(lines18[Current18[1]]))
    /\ IsReduced(parse_line(lines18[Current18[2]]))
    /\ \A i \in {Current18[1], Current18[2]} :
          \A k \in 1..Len(lines18[i]) : lines18[i][k] \in {"[", ",", "]", "9"}
    /\ ~NoDeeperThan(<<parse_line(lines18[Current18[1]]),
                       parse_line(lines18[Current18[2]])>>, 3)
    /\ IsReduced(number18[1])
    /\ \E d \in 1..8 :
          \E k \in 1..Len(Debug(number18[1])) : Debug(number18[1])[k] = Digits[d + 1]

----------------------------------------------------------------------------
(* day23: the amphipod burrow *)

\* A Burrow is [hallway, rooms]: hallway[i] for i in 0..10 and rooms[r][s]
\* for r in 0..3, s from 0 (next to the hallway), each an Option<Amphipod>.
Amphipods == <<"A", "B", "C", "D">>

energy(amphipod) ==
    CASE amphipod = "A" -> 1
      [] amphipod = "B" -> 10
      [] amphipod = "C" -> 100
      [] amphipod = "D" -> 1000

ENTRY_SPACES == <<2, 4, 6, 8>>

HallwayLast == 10

room_index(amphipod) == CHOOSE r \in 0..3 : Amphipods[r + 1] = amphipod

get_entry_space(amphipod) == ENTRY_SPACES[room_index(amphipod) + 1]

get_room(burrow, amphipod) == burrow.rooms[room_index(amphipod)]

BurrowNew(initial) ==
    [hallway |-> [i \in 0..HallwayLast |-> None],
     rooms |-> [r \in 0..3 |-> [s \in 0..(Len(initial[r + 1]) - 1) |->
                                    Some(initial[r + 1][s + 1])]]]

is_complete(burrow) ==
    /\ \A i \in 0..HallwayLast : burrow.hallway[i] = None
    /\ \A r \in 0..3 : \A s \in DOMAIN burrow.rooms[r] :
          burrow.rooms[r][s] = Some(Amphipods[r + 1])

\* room.iter().any(|space| space.is_some() && space != Some(amphipod))
HoldsOther(room, amphipod) ==
    \E s \in DOMAIN room : room[s] # None /\ room[s] # Some(amphipod)

\* is_invalid: its second test has an empty body
is_invalid(burrow) ==
    /\ burrow.hallway[1] # None
    /\ burrow.hallway[3] = Some("A")
    /\ HoldsOther(burrow.rooms[0], "A")

\* naive_solve_energy: the steps added to i + 1 for an amphipod of room
\* Amphipods[to + 1] in space i of room r
NaiveSteps(r, to) ==
    <<<<0, 3, 5, 7>>, <<3, 0, 3, 5>>, <<5, 3, 0, 3>>, <<7, 5, 3, 0>>>>[r + 1][to + 1]

RECURSIVE NaiveRooms(_, _, _)
\* naive_solve_energy: the cost of the rooms from space i of room r on
NaiveRooms(burrow, r, i) ==
    IF r > 3 THEN 0
    ELSE IF i \notin DOMAIN burrow.rooms[r] THEN NaiveRooms(burrow, r + 1, 0)
    ELSE LET space == burrow.rooms[r][i]
         IN (IF space = None \/ space = Some(Amphipods[r + 1]) THEN 0
             ELSE (i + 1 + NaiveSteps(r, room_index(space[1]))) * energy(space[1]))
            + NaiveRooms(burrow, r, i + 1)

RECURSIVE NaiveHallway(_, _)
\* naive_solve_energy: the cost of the hallway from space i on
NaiveHallway(burrow, i) ==
    IF i > HallwayLast THEN 0
    ELSE LET space == burrow.hallway[i]
         IN (IF space = None THEN 0
             ELSE (Abs(i - get_entry_space(space[1])) + 1) * energy(space[1]))
            + NaiveHallway(burrow, i + 1)

naive_solve_energy(burrow) == NaiveRooms(burrow, 0, 0) + NaiveHallway(burrow, 0)

\* the last open space of the room, 0 if there is none
farthest_open(room) ==
    IF \E s \in DOMAIN room : room[s] = None
    THEN SetMax({s \in DOMAIN room : room[s] = None})
    ELSE 0

\* next_move, the hallway loop at i: the move it tries, if any
HallwayMove(burrow, i) ==
    IF burrow.hallway[i] = None THEN <<>>
    ELSE LET amphipod == burrow.hallway[i][1]
             destination_room == get_room(burrow, amphipod)
             entryway == get_entry_space(amphipod)
             start == IF i < entryway THEN i + 1 ELSE entryway
             end == IF i < entryway THEN entryway ELSE i - 1
             open == farthest_open(destination_room)
         IN IF HoldsOther(destination_room, amphipod) THEN <<>>
            ELSE IF \E space \in start..end : burrow.hallway[space] # None THEN <<>>
            ELSE <<[kind |-> "hallway",
                    cost |-> (Abs(i - entryway) + open + 1) * energy(amphipod),
                    burrow |-> [hallway |-> [burrow.hallway EXCEPT ![i] = None],
                                rooms |-> [burrow.rooms EXCEPT
                                              ![room_index(amphipod)][open] = Some(amphipod)]]]>>

RECURSIVE LeaveLeft(_, _, _, _)
\* next_move: the moves from space `space` of room r to the hallway spaces
\* from i down, until one is occupied
LeaveLeft(burrow, r, space, i) ==
    IF i < 0 THEN <<>>
    ELSE IF burrow.hallway[i] # None THEN <<>>
    ELSE IF \E e \in 1..4 : ENTRY_SPACES[e] = i THEN LeaveLeft(burrow, r, space, i - 1)
    ELSE LET amphipod == burrow.rooms[r][space][1]
         IN <<[kind |-> "leave",
               cost |-> (ENTRY_SPACES[r + 1] - i + space + 1) * energy(amphipod),
               burrow |-> [hallway |-> [burrow.hallway EXCEPT ![i] = Some(amphipod)],
                           rooms |-> [burrow.rooms EXCEPT ![r][space] = None]]]>>
            \o LeaveLeft(burrow, r, space, i - 1)

RECURSIVE LeaveRight(_, _, _, _)
\* and to the hallway spaces from i up
LeaveRight(burrow, r, space, i) ==
    IF i > HallwayLast THEN <<>>
    ELSE IF burrow.hallway[i] # None THEN <<>>
    ELSE IF \E e \in 1..4 : ENTRY_SPACES[e] = i THEN LeaveRight(burrow, r, space, i + 1)
    ELSE LET amphipod == burrow.rooms[r][space][1]
         IN <<[kind |-> "leave",
               cost |-> (i - ENTRY_SPACES[r + 1] + space + 1) * energy(amphipod),
               burrow |-> [hallway |-> [burrow.hallway EXCEPT ![i] = Some(amphipod)],
                           rooms |-> [burrow.rooms EXCEPT ![r][space] = None]]]>>
            \o LeaveRight(burrow, r, space, i + 1)

\* next_move, the room loop at space `space` of room r: the moves it tries
RoomMoves(burrow, r, space) ==
    LET room == burrow.rooms[r]
        amphipod_type == Amphipods[r + 1]
        entryway == ENTRY_SPACES[r + 1]
    IN IF room[space] = None THEN <<>>
       ELSE LET amphipod == room[space][1]
                destination_room == get_room(burrow, amphipod)
                destination_entry == get_entry_space(amphipod)
                open == farthest_open(destination_room)
                hall_clear ==
                    \A hall_path \in Min2(entryway, destination_entry)
                                      ..(Max2(entryway, destination_entry) - 1) :
                        burrow.hallway[hall_path] = None
            IN IF amphipod = amphipod_type /\ ~HoldsOther(room, amphipod_type) THEN <<>>
               ELSE IF \E i \in 0..(space - 1) : room[i] # None THEN <<>>
               ELSE IF /\ ~HoldsOther(destination_room, amphipod)
                       /\ destination_entry # entryway
                       /\ hall_clear
               THEN <<[kind |-> "direct",
                       cost |-> (space + 1 + Abs(entryway - destination_entry)
                                    + open + 1) * energy(amphipod),
                       burrow |-> [hallway |-> burrow.hallway,
                                   rooms |-> [burrow.rooms EXCEPT
                                                 ![r][space] = None,
                                                 ![room_index(amphipod)][open] =
                                                     Some(amphipod)]]]>>
               ELSE LeaveLeft(burrow, r, space, entryway - 1)
                    \o LeaveRight(burrow, r, space, entryway + 1)

RECURSIVE HallwayLoop(_, _)
HallwayLoop(burrow, i) ==
    IF i > HallwayLast THEN <<>>
    ELSE HallwayMove(burrow, i) \o HallwayLoop(burrow, i + 1)

RECURSIVE RoomLoop(_, _, _)
RoomLoop(burrow, r, space) ==
    IF r > 3 THEN <<>>
    ELSE IF space \notin DOMAIN burrow.rooms[r] THEN RoomLoop(burrow, r + 1, 0)
    ELSE RoomMoves(burrow, r, space) \o RoomLoop(burrow, r, space + 1)

\* next_move: the moves its two loops try on a burrow, in order
Moves(burrow) == HallwayLoop(burrow, 0) \o RoomLoop(burrow, 0, 0)

\* The depths of the rooms tried.
Depths23 == {2, 4}

\* The reference below looks at the move sequences of at most this energy.
MaxEnergy23 == 120

\* The starts tried: two A and two B in any order in the first two spaces
\* of rooms A and B, every other amphipod in its own room.
Starts23 ==
    {<<<<top[1], top[2]>> \o [s \in 1..(depth - 2) |-> "A"],
       <<top[3], top[4]>> \o [s \in 1..(depth - 2) |-> "B"],
       [s \in 1..depth |-> "C"],
       [s \in 1..depth |-> "D"]>> :
        top \in {t \in [1..4 -> {"A", "B"}] :
                    Cardinality({k \in 1..4 : t[k] = "A"}) = 2},
        depth \in Depths23}

\* lowest_energy_solution up to its call of next_move(burrow, 0, &mut costs).
\* stack23 holds the calls of next_move in progress: the burrow and energy
\* of each and the index in Moves(burrow) of the move it tries next, 0
\* before its first tests.
InitDay23 ==
    /\ \E initial \in Starts23 : start23 = BurrowNew(initial)
    /\ stack23 = <<[burrow |-> start23, energy |-> 0, next |-> 0]>>
    /\ completed_cost = {}
    /\ pc23 = "run"
    /\ ret23 = None
    /\ IdleMain /\ IdleDay2 /\ IdleDay22 /\ IdleDay6 /\ IdleDay14 /\ IdleDay15 /\ IdleDay18 /\ IdleDay4 /\ IdleDay5 /\ IdleDay3 /\ IdleDay7

Top23 == stack23[Len(stack23)]

Popped23 == SubSeq(stack23, 1, Len(stack23) - 1)

\* the caller moves on to its next move and the callee starts
Called23(move) ==
    Append([stack23 EXCEPT ![Len(stack23)].next = @ + 1],
           [burrow |-> move.burrow, energy |-> Top23.energy + move.cost, next |-> 0])

\* next_move: the heuristic test and is_invalid
Enter23 ==
    /\ pc23 = "run" /\ stack23 # <<>>
    /\ Top23.next = 0
    /\ IF \/ /\ completed_cost # {}
              /\ SetMin(completed_cost) <= Top23.energy + naive_solve_energy(Top23.burrow)
          \/ is_invalid(Top23.burrow)
       THEN stack23' = Popped23
       ELSE stack23' = [stack23 EXCEPT ![Len(stack23)].next = 1]
    /\ UNCHANGED <<start23, completed_cost, pc23, ret23>>
    /\ UNCHANGED notDay23

\* next_move: an amphipod of the hallway moves into its room
TryHallway ==
    /\ pc23 = "run" /\ stack23 # <<>>
    /\ Top23.next \in 1..Len(Moves(Top23.burrow))
    /\ LET move == Moves(Top23.burrow)[Top23.next]
           total == Top23.energy + move.cost
       IN /\ move.kind = "hallway"
          /\ IF completed_cost # {} /\ SetMin(completed_cost) <= total
             THEN stack23' = Popped23 /\ UNCHANGED completed_cost
             ELSE IF is_complete(move.burrow)
             THEN stack23' = Popped23 /\ completed_cost' = completed_cost \cup {total}
             ELSE stack23' = Called23(move) /\ UNCHANGED completed_cost
    /\ UNCHANGED <<start23, pc23, ret23>>
    /\ UNCHANGED notDay23

\* next_move: an amphipod of a room moves to its own room
TryDirect ==
    /\ pc23 = "run" /\ stack23 # <<>>
    /\ Top23.next \in 1..Len(Moves(Top23.burrow))
    /\ LET move == Moves(Top23.burrow)[Top23.next]
       IN /\ move.kind = "direct"
          /\ IF is_complete(move.burrow)
             THEN /\ stack23' = Popped23
                  /\ completed_cost' = completed_cost \cup {Top23.energy + move.cost}
             ELSE stack23' = Called23(move) /\ UNCHANGED completed_cost
    /\ UNCHANGED <<start23, pc23, ret23>>
    /\ UNCHANGED notDay23

\* next_move: an amphipod of a room moves to the hallway
TryLeave ==
    /\ pc23 = "run" /\ stack23 # <<>>
    /\ Top23.next \in 1..Len(Moves(Top23.burrow))
    /\ LET move == Moves(Top23.burrow)[Top23.next]
       IN /\ move.kind = "leave"
          /\ stack23' = Called23(move)
    /\ UNCHANGED <<start23, completed_cost, pc23, ret23>>
    /\ UNCHANGED notDay23

\* next_move: both loops are over
Return23 ==
    /\ pc23 = "run" /\ stack23 # <<>>
    /\ Top23.next > Len(Moves(Top23.burrow))
    /\ stack23' = Popped23
    /\ UNCHANGED <<start23, completed_cost, pc23, ret23>>
    /\ UNCHANGED notDay23

\* lowest_energy_solution: costs.into_iter().min().unwrap()
Lowest23 ==
    /\ pc23 = "run" /\ stack23 = <<>>
    /\ IF completed_cost = {}
       THEN pc23' = "panic" /\ UNCHANGED ret23
       ELSE pc23' = "done" /\ ret23' = Some(SetMin(completed_cost))
    /\ UNCHANGED <<start23, stack23, completed_cost>>
    /\ UNCHANGED notDay23

NextDay23 ==
    \/ Enter23
    \/ TryHallway
    \/ TryDirect
    \/ TryLeave
    \/ Return23
    \/ Lowest23

SpecDay23 == InitDay23 /\ [][NextDay23]_vars

\* The puzzle's rules.  The hallway spaces an amphipod passes and stops at
\* on its way from the space `from` to the space `to`:
Passes(from, to) == IF from < to THEN (from + 1)..to ELSE to..(from - 1)

\* the spaces of a room that can be reached from the hallway
Reachable23(room) == {s \in DOMAIN room : \A k \in 0..s : room[k] = None}

\* the space of the amphipod of a room that can leave it
Leaver23(room) ==
    {s \in DOMAIN room : room[s] # None /\ \A k \in 0..(s - 1) : room[k] = None}

NonEntry == (0..HallwayLast) \ {ENTRY_SPACES[e] : e \in 1..4}

\* every legal move of a burrow, as <<the burrow after it, its energy>>
LegalMoves(burrow) ==
    LET FreeWay(from, to) == \A p \in Passes(from, to) : burrow.hallway[p] = None
        MayEnter(a) == ~HoldsOther(get_room(burrow, a), a)
        HallwayToRoom ==
            {<<[hallway |-> [burrow.hallway EXCEPT ![m[1]] = None],
                rooms |-> [burrow.rooms EXCEPT
                              ![room_index(burrow.hallway[m[1]][1])][m[2]] =
                                  burrow.hallway[m[1]]]],
               (Abs(m[1] - get_entry_space(burrow.hallway[m[1]][1])) + m[2] + 1)
                   * energy(burrow.hallway[m[1]][1])>> :
                m \in {m \in NonEntry \X (0..3) :
                          /\ burrow.hallway[m[1]] # None
                          /\ MayEnter(burrow.hallway[m[1]][1])
                          /\ FreeWay(m[1], get_entry_space(burrow.hallway[m[1]][1]))
                          /\ m[2] \in Reachable23(get_room(burrow, burrow.hallway[m[1]][1]))}}
        RoomToHallway ==
            {<<[hallway |-> [burrow.hallway EXCEPT ![m[3]] = burrow.rooms[m[1]][m[2]]],
                rooms |-> [burrow.rooms EXCEPT ![m[1]][m[2]] = None]],
               (m[2] + 1 + Abs(m[3] - ENTRY_SPACES[m[1] + 1]))
                   * energy(burrow.rooms[m[1]][m[2]][1])>> :
                m \in {m \in (0..3) \X (0..3) \X NonEntry :
                          /\ m[2] \in Leaver23(burrow.rooms[m[1]])
                          /\ FreeWay(ENTRY_SPACES[m[1] + 1], m[3])}}
        RoomToRoom ==
            {<<[hallway |-> burrow.hallway,
                rooms |-> [burrow.rooms EXCEPT
                              ![m[1]][m[2]] = None,
                              ![room_index(burrow.rooms[m[1]][m[2]][1])][m[3]] =
                                  burrow.rooms[m[1]][m[2]]]],
               (m[2] + 1
                  + Abs(get_entry_space(burrow.rooms[m[1]][m[2]][1]) - ENTRY_SPACES[m[1] + 1])
                  + m[3] + 1) * energy(burrow.rooms[m[1]][m[2]][1])>> :
                m \in {m \in (0..3) \X (0..3) \X (0..3) :
                          /\ m[2] \in Leaver23(burrow.rooms[m[1]])
                          /\ burrow.rooms[m[1]][m[2]] # Some(Amphipods[m[1] + 1])
                          /\ MayEnter(burrow.rooms[m[1]][m[2]][1])
                          /\ FreeWay(ENTRY_SPACES[m[1] + 1],
                                     get_entry_space(burrow.rooms[m[1]][m[2]][1]))
                          /\ m[3] \in Reachable23(get_room(burrow,
                                                            burrow.rooms[m[1]][m[2]][1]))}}
    IN HallwayToRoom \cup RoomToHallway \cup RoomToRoom

RECURSIVE LeastFrom(_, _, _)
\* The least energy, from e on, of a sequence of legal moves that ends with
\* every amphipod in its room, None if there is none up to MaxEnergy23.
\* settled: the burrows reached with less than e; pending: the
\* <<burrow, energy>> reached by one more move from a settled one.
LeastFrom(e, settled, pending) ==
    IF e > MaxEnergy23 THEN None
    ELSE LET now == {p[1] : p \in {p \in pending : p[2] = e}} \ settled
         IN IF \E burrow \in now : is_complete(burrow) THEN Some(e)
            ELSE LeastFrom(e + 1,
                           {b : b \in settled \cup now},
                           {p : p \in {p \in pending : p[2] > e} \cup
                                      UNION {{<<m[1], e + m[2]>> : m \in LegalMoves(b)} :
                                                b \in now}})

LeastEnergy(burrow) == LeastFrom(0, {}, {<<burrow, 0>>})

\* C4: for every start burrow from which the goal can be reached,
\* lowest_energy_solution returns the least total energy of a sequence of
\* legal moves that ends with every amphipod in its own room.
C4_ReturnsLeastEnergy ==
    pc23 \in {"done", "panic"} /\ LeastEnergy(start23) # None =>
        pc23 = "done" /\ ret23 = LeastEnergy(start23)

\* What holds instead: it does so unless the start burrow is complete.
LeastEnergyUnlessComplete ==
    pc23 \in {"done", "panic"} /\ LeastEnergy(start23) # None /\ ~is_complete(start23) =>
        pc23 = "done" /\ ret23 = LeastEnergy(start23)

----------------------------------------------------------------------------
(* day4: bingo *)

\* A Board is a sequence of rows of Tiles [number, called].
MaxBoards == 2

MaxDraws == 3

Numbers4 == 1..4

\* The boards tried: the 2 by 2 boards of four different numbers.
Boards4 ==
    {<<<<n[1], n[2]>>, <<n[3], n[4]>>>> :
        n \in {n \in [1..4 -> Numbers4] : Cardinality({n[k] : k \in 1..4}) = 4}}

\* parse_board: every Tile::new(number) is not called
NewBoard(numbers) ==
    [row \in 1..Len(numbers) |->
        [col \in 1..Len(numbers[row]) |-> [number |-> numbers[row][col], called |-> FALSE]]]

\* Board::mark: the first tile of the number, row by row, is marked
BoardMark(board, draw) ==
    LET hits == {rc \in (1..Len(board)) \X (1..Len(board[1])) :
                    board[rc[1]][rc[2]].number = draw}
    IN IF hits = {} THEN board
       ELSE LET first == CHOOSE rc \in hits :
                            \A other \in hits :
                                rc[1] < other[1] \/ (rc[1] = other[1] /\ rc[2] <= other[2])
            IN [board EXCEPT ![first[1]][first[2]].called = TRUE]

is_winner(board) ==
    \/ \E row \in 1..Len(board) : \A col \in 1..Len(board[row]) : board[row][col].called
    \/ \E c \in 1..Len(board) : \A r \in 1..Len(board) : board[r][c].called

RECURSIVE SumRow4(_, _)
SumRow4(row, n) ==
    IF n = 0 THEN 0
    ELSE SumRow4(row, n - 1) + (IF row[n].called THEN 0 ELSE row[n].number)

RECURSIVE SumRows4(_, _)
SumRows4(board, n) ==
    IF n = 0 THEN 0 ELSE SumRows4(board, n - 1) + SumRow4(board[n], Len(board[n]))

sum_unmarked(board) == SumRows4(board, Len(board))

InitDay4 ==
    /\ \E n \in 0..MaxBoards : boards4 \in [1..n -> Boards4]
    /\ \E n \in 0..MaxDraws : draws4 \in [1..n -> Numbers4]
    /\ playing = [b \in 1..Len(boards4) |-> NewBoard(boards4[b])]
    /\ drawn = 0
    /\ pc4 = "loop"
    /\ ret4 = None
    /\ IdleMain /\ IdleDay2 /\ IdleDay22 /\ IdleDay6 /\ IdleDay14 /\ IdleDay15 /\ IdleDay18 /\ IdleDay23 /\ IdleDay5 /\ IdleDay3 /\ IdleDay7

\* last_winner_score: the boards after board.mark(draw) on each
Marked4 == [b \in 1..Len(playing) |-> BoardMark(playing[b], draws4[drawn + 1])]

\* last_winner_score: a draw on which the function returns: one board
\* remains and it wins
LastWins ==
    /\ pc4 = "loop"
    /\ drawn < Len(draws4)
    /\ Len(playing) = 1 /\ is_winner(Marked4[1])
    /\ ret4' = Some(sum_unmarked(Marked4[1]) * draws4[drawn + 1])
    /\ playing' = Marked4
    /\ pc4' = "done"
    /\ UNCHANGED <<boards4, draws4, drawn>>
    /\ UNCHANGED notDay4

\* last_winner_score: any other draw: the winners are filtered out
NextDraw ==
    /\ pc4 = "loop"
    /\ drawn < Len(draws4)
    /\ ~(Len(playing) = 1 /\ is_winner(Marked4[1]))
    /\ playing' = SelectSeq(Marked4, LAMBDA board : ~is_winner(board))
    /\ drawn' = drawn + 1
    /\ UNCHANGED <<boards4, draws4, pc4, ret4>>
    /\ UNCHANGED notDay4

\* last_winner_score: the draws are over
NoLastWinner ==
    /\ pc4 = "loop"
    /\ drawn = Len(draws4)
    /\ ret4' = Some(0)
    /\ pc4' = "done"
    /\ UNCHANGED <<boards4, draws4, playing, drawn>>
    /\ UNCHANGED notDay4

NextDay4 ==
    \/ LastWins
    \/ NextDraw
    \/ NoLastWinner

SpecDay4 == InitDay4 /\ [][NextDay4]_vars

\* The game by its rules.  The numbers called by the first k draws:
Called4(k) == {draws4[d] : d \in 1..k}

\* a board of numbers has a row or a column of called numbers after k draws
Bingo(numbers, k) ==
    \/ \E row \in 1..Len(numbers) :
          \A col \in 1..Len(numbers[row]) : numbers[row][col] \in Called4(k)
    \/ \E col \in 1..Len(numbers[1]) :
          \A row \in 1..Len(numbers) : numbers[row][col] \in Called4(k)

\* the draw on which a board wins; it is a board that wins
WinsOn(numbers) == CHOOSE k \in 1..Len(draws4) : Bingo(numbers, k) /\ ~Bingo(numbers, k - 1)

RECURSIVE Uncalled(_, _, _)
\* the sum of the first n numbers of a board, row by row, not called by
\* the first k draws
Uncalled(numbers, n, k) ==
    IF n = 0 THEN 0
    ELSE LET cols == Len(numbers[1])
             number == numbers[((n - 1) \div cols) + 1][((n - 1) % cols) + 1]
         IN Uncalled(numbers, n - 1, k) + (IF number \in Called4(k) THEN 0 ELSE number)

Score4(numbers) ==
    Uncalled(numbers, Len(numbers) * Len(numbers[1]), WinsOn(numbers))
        * draws4[WinsOn(numbers)]

EveryBoardWins == \A b \in 1..Len(boards4) : Bingo(boards4[b], Len(draws4))

\* the boards that win on the latest draw on which a board wins
LastWinners ==
    {b \in 1..Len(boards4) :
        \A other \in 1..Len(boards4) : WinsOn(boards4[other]) <= WinsOn(boards4[b])}

\* C11: when every board eventually wins, last_winner_score returns the
\* score of the board that is the last to win: the sum of its unmarked
\* numbers when it wins times the draw on which it wins.
C11_ScoreOfLastWinner ==
    pc4 = "done" /\ boards4 # <<>> /\ EveryBoardWins =>
        \E b \in LastWinners : ret4 = Some(Score4(boards4[b]))

\* What holds instead: it does so when one board alone is the last to win.
ScoreOfOnlyLastWinner ==
    pc4 = "done" /\ boards4 # <<>> /\ EveryBoardWins /\ Cardinality(LastWinners) = 1 =>
        \E b \in LastWinners : ret4 = Some(Score4(boards4[b]))

----------------------------------------------------------------------------
(* day5: hydrothermal vents *)

\* A Point is [x, y]; a LineSegment is [p1, p2].
MaxCoord == 2

MaxLines5 == 2

Points5 == [x : 0..MaxCoord, y : 0..MaxCoord]

LineSegments5 == [p1 : Points5, p2 : Points5]

\* count_straight_overlaps: the two filters
horizontal_lines(lines) == SelectSeq(lines, LAMBDA ls : ls.p1.y = ls.p2.y)

vertical_lines(lines) == SelectSeq(lines, LAMBDA ls : ls.p1.x = ls.p2.x)

\* *grid.entry(point).or_insert(0) += 1
Entry(map, point) ==
    IF point \in DOMAIN map
    THEN [map EXCEPT ![point] = @ + 1]
    ELSE [p \in DOMAIN map \cup {point} |-> IF p = point THEN 0 + 1 ELSE map[p]]

RECURSIVE AlongX(_, _, _, _)
\* for x in from..=to: the points [x, y] are entered
AlongX(map, from, to, y) ==
    IF from > to THEN map
    ELSE AlongX(Entry(map, [x |-> from, y |-> y]), from + 1, to, y)

RECURSIVE AlongY(_, _, _, _)
\* for y in from..=to: the points [x, y] are entered
AlongY(map, from, to, x) ==
    IF from > to THEN map
    ELSE AlongY(Entry(map, [x |-> x, y |-> from]), from + 1, to, x)

InitDay5 ==
    /\ \E n \in 0..MaxLines5 : lines5 \in [1..n -> LineSegments5]
    /\ grid5 = <<>>
    /\ done5 = 0
    /\ pc5 = "horizontal"
    /\ ret5 = None
    /\ IdleMain /\ IdleDay2 /\ IdleDay22 /\ IdleDay6 /\ IdleDay14 /\ IdleDay15 /\ IdleDay18 /\ IdleDay23 /\ IdleDay4 /\ IdleDay3 /\ IdleDay7

\* count_straight_overlaps: one line of the loop over horizontal_lines
Horizontal ==
    /\ pc5 = "horizontal"
    /\ done5 < Len(horizontal_lines(lines5))
    /\ LET ls == horizontal_lines(lines5)[done5 + 1]
       IN grid5' = AlongX(grid5, Min2(ls.p1.x, ls.p2.x), Max2(ls.p1.x, ls.p2.x), ls.p1.y)
    /\ done5' = done5 + 1
    /\ UNCHANGED <<lines5, pc5, ret5>>
    /\ UNCHANGED notDay5

\* count_straight_overlaps: the loop over horizontal_lines is over
HorizontalDone ==
    /\ pc5 = "horizontal"
    /\ done5 = Len(horizontal_lines(lines5))
    /\ pc5' = "vertical"
    /\ done5' = 0
    /\ UNCHANGED <<lines5, grid5, ret5>>
    /\ UNCHANGED notDay5

\* count_straight_overlaps: one line of the loop over vertical_lines
Vertical ==
    /\ pc5 = "vertical"
    /\ done5 < Len(vertical_lines(lines5))
    /\ LET ls == vertical_lines(lines5)[done5 + 1]
       IN grid5' = AlongY(grid5, Min2(ls.p1.y, ls.p2.y), Max2(ls.p1.y, ls.p2.y), ls.p1.x)
    /\ done5' = done5 + 1
    /\ UNCHANGED <<lines5, pc5, ret5>>
    /\ UNCHANGED notDay5

\* count_straight_overlaps: the points counted more than once
CountOverlaps ==
    /\ pc5 = "vertical"
    /\ done5 = Len(vertical_lines(lines5))
    /\ ret5' = Some(Cardinality({p \in DOMAIN grid5 : grid5[p] > 1}))
    /\ pc5' = "done"
    /\ UNCHANGED <<lines5, grid5, done5>>
    /\ UNCHANGED notDay5

NextDay5 ==
    \/ Horizontal
    \/ HorizontalDone
    \/ Vertical
    \/ CountOverlaps

SpecDay5 == InitDay5 /\ [][NextDay5]_vars

\* The geometry.  A segment is straight when it is horizontal or vertical:
Straight(ls) == ls.p1.y = ls.p2.y \/ ls.p1.x = ls.p2.x

\* a straight segment covers the points between its ends
CoversPoint(ls, p) ==
    /\ Min2(ls.p1.x, ls.p2.x) <= p.x /\ p.x <= Max2(ls.p1.x, ls.p2.x)
    /\ Min2(ls.p1.y, ls.p2.y) <= p.y /\ p.y <= Max2(ls.p1.y, ls.p2.y)

\* the segments of the input, by their place in it, that cover a point
Covering(p) == {k \in 1..Len(lines5) : Straight(lines5[k]) /\ CoversPoint(lines5[k], p)}

\* a segment of one point
IsPoint(ls) == ls.p1 = ls.p2

\* C12: count_straight_overlaps returns the number of points covered by at
\* least two of the horizontal or vertical segments; a point covered by one
\* segment is not counted, and diagonals are ignored.
C12_PointsCoveredTwice ==
    pc5 = "done" => ret5 = Some(Cardinality({p \in Points5 : Cardinality(Covering(p)) >= 2}))

\* What holds instead: a segment of one point is both horizontal and
\* vertical, and counts as two.
PointsCoveredTwiceOrByAPoint ==
    pc5 = "done" =>
        ret5 = Some(Cardinality({p \in Points5 :
                   \/ Cardinality(Covering(p)) >= 2
                   \/ \E k \in Covering(p) : IsPoint(lines5[k])}))

----------------------------------------------------------------------------
(* day3: binary diagnostic *)

\* A line is a sequence of the chars "0" and "1".
MaxBits == 3

MaxLines3 == 3

\* The lists tried: different lines of one length, that is not 0.
Diagnostics ==
    UNION {{d \in SeqsUpTo([1..length -> {"0", "1"}], MaxLines3) :
                d # <<>> /\ \A i, j \in 1..Len(d) : i # j => d[i] # d[j]} :
           length \in 1..MaxBits}

\* most_common_digit: the fold, the count of a char among the digits at a
\* place (digit counts from 0); no entry when there is none
digit_groups(kept, digit, c) ==
    LET count == Cardinality({i \in 1..Len(kept) : kept[i][digit + 1] = c})
    IN IF count = 0 THEN None ELSE Some(count)

\* most_common_digit; None when an unwrap() of a missing count panics
most_common_digit(kept, digit) ==
    LET one_count == digit_groups(kept, digit, "1")
        zero_count == digit_groups(kept, digit, "0")
    IN IF one_count = None \/ zero_count = None THEN None
       ELSE IF one_count[1] >= zero_count[1] THEN Some("1") ELSE Some("0")

RECURSIVE FromBinary(_, _)
\* the value of the first n chars of a line in base 2
FromBinary(line, n) ==
    IF n = 0 THEN 0 ELSE 2 * FromBinary(line, n - 1) + (IF line[n] = "1" THEN 1 ELSE 0)

\* i32::from_str_radix(line, 2): Err on the empty string
from_str_radix(line) == IF line = <<>> THEN None ELSE Some(FromBinary(line, Len(line)))

InitDay3 ==
    /\ diagnostic \in Diagnostics
    /\ rating = diagnostic
    /\ place3 = 0
    /\ oxygen3 = None
    /\ pc3 = "oxygen"
    /\ ret3 = None
    /\ IdleMain /\ IdleDay2 /\ IdleDay22 /\ IdleDay6 /\ IdleDay14 /\ IdleDay15 /\ IdleDay18 /\ IdleDay23 /\ IdleDay4 /\ IdleDay5 /\ IdleDay7

\* life_support: one turn of the first while loop
OxygenKeep ==
    /\ pc3 = "oxygen"
    /\ Len(rating) > 1
    /\ LET most_common == most_common_digit(rating, place3)
       IN IF most_common = None
          THEN pc3' = "panic" /\ UNCHANGED <<rating, place3>>
          ELSE /\ rating' = SelectSeq(rating, LAMBDA line : line[place3 + 1] = most_common[1])
               /\ place3' = place3 + 1
               /\ pc3' = pc3
    /\ UNCHANGED <<diagnostic, oxygen3, ret3>>
    /\ UNCHANGED notDay3

\* life_support: the first loop is over, the oxygen value is parsed and the
\* second loop is set up
OxygenParsed ==
    /\ pc3 = "oxygen"
    /\ Len(rating) <= 1
    /\ IF rating = <<>> \/ from_str_radix(rating[1]) = None
       THEN pc3' = "panic" /\ UNCHANGED <<rating, place3, oxygen3>>
       ELSE /\ oxygen3' = from_str_radix(rating[1])
            /\ rating' = diagnostic
            /\ place3' = 0
            /\ pc3' = "co2"
    /\ UNCHANGED <<diagnostic, ret3>>
    /\ UNCHANGED notDay3

\* life_support: one turn of the second while loop
Co2Keep ==
    /\ pc3 = "co2"
    /\ Len(rating) > 1
    /\ LET most_common == most_common_digit(rating, place3)
           least_common == IF most_common = Some("1") THEN "0" ELSE "1"
       IN IF most_common = None
          THEN pc3' = "panic" /\ UNCHANGED <<rating, place3>>
          ELSE /\ rating' = SelectSeq(rating, LAMBDA line : line[place3 + 1] = least_common)
               /\ place3' = place3 + 1
               /\ pc3' = pc3
    /\ UNCHANGED <<diagnostic, oxygen3, ret3>>
    /\ UNCHANGED notDay3

\* life_support: the second loop is over, the co2 value is parsed and the
\* product is returned
Co2Parsed ==
    /\ pc3 = "co2"
    /\ Len(rating) <= 1
    /\ IF rating = <<>> \/ from_str_radix(rating[1]) = None
       THEN pc3' = "panic" /\ UNCHANGED ret3
       ELSE /\ ret3' = Some(from_str_radix(rating[1])[1] * oxygen3[1])
            /\ pc3' = "done"
    /\ UNCHANGED <<diagnostic, rating, place3, oxygen3>>
    /\ UNCHANGED notDay3

NextDay3 ==
    \/ OxygenKeep
    \/ OxygenParsed
    \/ Co2Keep
    \/ Co2Parsed

SpecDay3 == InitDay3 /\ [][NextDay3]_vars

\* The ratings by their rule.  The lines of a set with a bit at a position
\* (positions count from 1):
WithBit(lines, at, bit) == {line \in lines : line[at] = bit}

\* the bit to keep: the most common one, "1" on a tie, or the least common
\* one, "0" on a tie
BitToKeep(lines, at, most) ==
    LET ones == Cardinality(WithBit(lines, at, "1"))
        zeros == Cardinality(WithBit(lines, at, "0"))
    IN IF most
       THEN (IF ones >= zeros THEN "1" ELSE "0")
       ELSE (IF zeros <= ones THEN "0" ELSE "1")

RECURSIVE LeftFrom(_, _, _)
\* the lines left when the positions from one on are gone through until a
\* single line is left
LeftFrom(lines, at, most) ==
    IF Cardinality(lines) <= 1 \/ at > Len(diagnostic[1]) THEN lines
    ELSE LeftFrom(WithBit(lines, at, BitToKeep(lines, at, most)),
                  at + 1, most)

Given3 == {diagnostic[i] : i \in 1..Len(diagnostic)}

\* the product of the two ratings, when each is a single line
LifeSupport ==
    {FromBinary(o, Len(o)) * FromBinary(c, Len(c)) :
        <<o, c>> \in {oc \in LeftFrom(Given3, 1, TRUE) \X LeftFrom(Given3, 1, FALSE) :
                        /\ Cardinality(LeftFrom(Given3, 1, TRUE)) = 1
                        /\ Cardinality(LeftFrom(Given3, 1, FALSE)) = 1}}

\* C13: for a non-empty list of distinct binary strings of one length,
\* life_support does not abort and returns oxygen times co2, each the single
\* string left by keeping the most (least) common bit position by position.
C13_LifeSupportReturnsRatings ==
    /\ pc3 # "panic"
    /\ pc3 = "done" => \E product \in LifeSupport : ret3 = Some(product)

\* What holds instead: the value, when one is returned, is that product,
\* and a panic is a kept list with the same bit in all its lines at a place.
ReturnedIsRatings ==
    /\ pc3 = "done" => \E product \in LifeSupport : ret3 = Some(product)
    /\ pc3 = "panic" =>
          /\ Len(rating) > 1
          /\ \A i, j \in 1..Len(rating) : rating[i][place3 + 1] = rating[j][place3 + 1]

----------------------------------------------------------------------------
(* day7: crab submarines *)

MaxSubs == 4

MaxPosition == 4

\* The positions tried; one of them is negative, where the / of
\* exponential_gas rounds up.
Positions7 == (0 - 1)..MaxPosition

RECURSIVE Insert7(_, _)
\* a sorted list with one more value at its place
Insert7(sorted, value) ==
    IF sorted = <<>> THEN <<value>>
    ELSE IF value <= Head(sorted) THEN <<value>> \o sorted
    ELSE <<Head(sorted)>> \o Insert7(Tail(sorted), value)

RECURSIVE Sort7(_)
\* sorted_subs.sort()
Sort7(subs) == IF subs = <<>> THEN <<>> ELSE Insert7(Sort7(Tail(subs)), Head(subs))

RECURSIVE calc_gas(_, _)
\* the fold, from the last sub back
calc_gas(subs, target) ==
    IF subs = <<>> THEN 0
    ELSE calc_gas(SubSeq(subs, 1, Len(subs) - 1), target) + Abs(subs[Len(subs)] - target)

RECURSIVE calc_gas_exp(_, _)
calc_gas_exp(subs, target) ==
    IF subs = <<>> THEN 0
    ELSE LET n == Abs(subs[Len(subs)] - target)
         IN calc_gas_exp(SubSeq(subs, 1, Len(subs) - 1), target) + ((n * (n + 1)) \div 2)

RECURSIVE Sum7(_)
\* iter().sum()
Sum7(subs) == IF subs = <<>> THEN 0 ELSE Head(subs) + Sum7(Tail(subs))

\* the / of i32, that rounds towards 0; the divisor is a length, above 0
Divide(a, b) == IF a >= 0 THEN a \div b ELSE 0 - ((0 - a) \div b)

\* linear_gas; None when sorted_subs[median + 1] is out of bounds (indices
\* of the code count from 0)
linear_gas(subs) ==
    LET sorted_subs == Sort7(subs)
        median == Len(sorted_subs) \div 2
    IN IF median + 1 >= Len(sorted_subs) THEN None
       ELSE Some(Min2(calc_gas(sorted_subs, sorted_subs[median + 1]),
                      calc_gas(sorted_subs, sorted_subs[median + 2])))

\* exponential_gas that evaluates the average alone
exponential_gas_average(subs) ==
    LET sorted_subs == Sort7(subs)
        average == Divide(Sum7(sorted_subs), Len(sorted_subs))
    IN calc_gas_exp(sorted_subs, average)

exponential_gas(subs) ==
    LET sorted_subs == Sort7(subs)
        average == Divide(Sum7(sorted_subs), Len(sorted_subs))
    IN Min2(calc_gas_exp(sorted_subs, average), calc_gas_exp(sorted_subs, average + 1))

InitDay7 ==
    /\ \E n \in 1..MaxSubs : subs7 \in [1..n -> Positions7]
    /\ called7 = "none"
    /\ pc7 = "start"
    /\ ret7 = None
    /\ IdleMain /\ IdleDay2 /\ IdleDay22 /\ IdleDay6 /\ IdleDay14 /\ IdleDay15 /\ IdleDay18 /\ IdleDay23 /\ IdleDay4 /\ IdleDay5 /\ IdleDay3

\* a call of linear_gas
LinearGas ==
    /\ pc7 = "start"
    /\ called7' = "linear_gas"
    /\ IF linear_gas(subs7) = None
       THEN pc7' = "panic" /\ UNCHANGED ret7
       ELSE pc7' = "done" /\ ret7' = linear_gas(subs7)
    /\ UNCHANGED subs7
    /\ UNCHANGED notDay7

\* a call of exponential_gas
ExponentialGas ==
    /\ pc7 = "start"
    /\ called7' = "exponential_gas"
    /\ pc7' = "done"
    /\ ret7' = Some(exponential_gas(subs7))
    /\ UNCHANGED subs7
    /\ UNCHANGED notDay7

NextDay7 ==
    \/ LinearGas
    \/ ExponentialGas

SpecDay7 == InitDay7 /\ [][NextDay7]_vars

\* The gas by its rule.  The targets looked at: all positions between the
\* crabs, and some beyond them on both sides.
Targets7 == ((0 - 1) - 2)..(MaxPosition + 1 + 2)

\* the steps of the crabs to a target
Steps7(target) == [i \in 1..Len(subs7) |-> Abs(subs7[i] - target)]

RECURSIVE Triangle(_)
\* 1 + 2 + ... + n
Triangle(n) == IF n = 0 THEN 0 ELSE n + Triangle(n - 1)

LeastLinear == SetMin({Sum7(Steps7(p)) : p \in Targets7})

LeastExponential ==
    SetMin({Sum7([i \in 1..Len(subs7) |-> Triangle(Steps7(p)[i])]) : p \in Targets7})

\* C14: for a non-empty list linear_gas returns the least sum of
\* |position - p| over the targets p.
C14_LinearGasIsLeast ==
    called7 = "linear_gas" => pc7 = "done" /\ ret7 = Some(LeastLinear)

\* What holds instead: it does for three crabs or more.
LinearGasIsLeastFromThree ==
    called7 = "linear_gas" /\ Len(subs7) >= 3 => pc7 = "done" /\ ret7 = Some(LeastLinear)

NonNegative7 == \A i \in 1..Len(subs7) : subs7[i] >= 0

\* C15: for a non-empty list of positions that are not negative,
\* exponential_gas returns the least sum of n(n+1)/2, n = |position - p|,
\* over the targets p: the least is at the average or at the average plus 1.
C15_ExponentialGasIsLeast ==
    called7 = "exponential_gas" /\ NonNegative7 =>
        pc7 = "done" /\ ret7 = Some(LeastExponential)

\* C15 at work: crabs at three places at least, none negative, the least
\* gas is returned and it is that of the average plus 1 alone.
C15_Witness ==
    /\ called7 = "exponential_gas" /\ pc7 = "done" /\ NonNegative7
    /\ Cardinality({subs7[i] : i \in 1..Len(subs7)}) >= 3
    /\ ret7 = Some(LeastExponential)
    /\ LET average == Sum7(subs7) \div Len(subs7)
       IN /\ calc_gas_exp(subs7, average) > LeastExponential
          /\ calc_gas_exp(subs7, average + 1) = LeastExponential

============================================================================
